---- MODULE Spec2Model ----
(***************************************************************************)
(* State-machine model of the Simcity.AI / NeuralTown simulation core:     *)
(* SimulationEngine (tick scheduler), AgentManager (registry),             *)
(* EventManager (lifecycle rules), AgentActions, ConversationEngine and    *)
(* WorldManager.                                                           *)
(*                                                                         *)
(* Numbers.  Vitals and mood_score are JavaScript numbers that move in     *)
(* steps of 0.1; the model stores them in TENTHS (health 64 is 640), so    *)
(* every delta and threshold below is the source's value times 10.  age    *)
(* counts ticks and is stored as is.  Math.random() is a draw r from       *)
(* 0..999 standing for r/1000.                                             *)
(*                                                                         *)
(* Scheduling.  Node runs one JavaScript job at a time: the code between   *)
(* two awaits on real I/O (database, oracle, timer) is one atomic action.  *)
(* An await on a value that is already settled only defers to the          *)
(* microtask queue, which is drained before any timer or I/O callback, so  *)
(* it is no interleaving point.  Consecutive awaits between which the      *)
(* code changes no modelled state are one await point.                     *)
(***************************************************************************)
EXTENDS Integers, Sequences, FiniteSets, TLC

VARIABLES
  isRunning,            \* SimulationEngine.isRunning
  cronJob,              \* SimulationEngine.cronJob: TRUE when a schedule is active
  tickCount,            \* SimulationEngine.tickCount
  world,                \* WorldManager.state
  agents,               \* the Agent objects on the heap, by id
  registry,             \* the keys of AgentManager.agents (the Map)
  ticks,                \* the invocations of tick() in flight, by slot
  activeConversations,  \* the keys of ConversationEngine.activeConversations
  unit                  \* input and output of the single-operation specifications

vars == <<isRunning, cronJob, tickCount, world, agents, registry, ticks,
          activeConversations, unit>>

-----------------------------------------------------------------------------
(* Bounds of the model *)

\* ticks started in one behaviour
MaxTicks == 2
\* invocations of tick() that may be in flight together
MaxOverlap == 2
\* agents registered at bootstrap
RosterSize == 2
\* agents the spawn rule may add in one behaviour
MaxSpawn == 1
\* failed oracle calls in one conversation
MaxTurnFailures == 1

Ids == 1..(RosterSize + MaxSpawn)
Slots == 1..MaxOverlap

\* places the oracle may name in go_to (a sample of src/backend/data/locations.ts)
Locs == {"homes", "cafe"}
\* body_language strings the oracle may supply with stay_silent
BodyLanguages == {"standing still, lost in thought", "sleeping"}
\* samples of Math.random() * 1000
RandomDraws == {0, 49, 50, 199, 200, 999}

-----------------------------------------------------------------------------
(* Program constants, in tenths where they are vitals *)

VitalMax == 1000
MoodMin == -1000
HungerDelta == 5
EnergyNightDelta == 15
EnergySleepDelta == 450
EnergyDayDelta == 8
HealthRegen == 5
HealthHungerPenalty == 15
HealthEnergyPenalty == 3
MoodRecovery == 10
LowEnergy == 100
AgeThreshold == 300
HardCap == 10
SoftCap == 8
SpawnPermille == 50
WakeEnergy == 800
SleepPassDelta == 150
MINUTES_PER_TICK == 30

Min(a, b) == IF a < b THEN a ELSE b
Max(a, b) == IF a > b THEN a ELSE b

At(loc) == "at " \o loc

\* the heap object of an id that was never created
NoAgent == [health |-> 0, hunger |-> 0, energy |-> 0, age |-> 0, mood |-> 0,
            loc |-> "", act |-> "", prof |-> "none"]

-----------------------------------------------------------------------------
(* AgentManager.updatePhysicalNeeds, for one agent *)

\* the night branch without its test of the activity
DecayAgent_SleepDrains(a, isNighttime) ==
  LET hunger == Min(VitalMax, a.hunger + HungerDelta)
      energy == IF isNighttime
                  THEN Max(0, a.energy - EnergyNightDelta)
                ELSE IF a.act = "sleeping"
                  THEN Min(VitalMax, a.energy + EnergySleepDelta)
                ELSE Max(0, a.energy - EnergyDayDelta)
      h1 == IF hunger < 300 /\ energy > 600
              THEN Min(VitalMax, a.health + HealthRegen) ELSE a.health
      h2 == IF hunger > 900 THEN Max(0, h1 - HealthHungerPenalty) ELSE h1
      h3 == IF energy < LowEnergy THEN Max(0, h2 - HealthEnergyPenalty) ELSE h2
      mood == IF hunger < 400 /\ energy > 500 /\ h3 > 600
                THEN Min(VitalMax, a.mood + MoodRecovery) ELSE a.mood
  IN [a EXCEPT !.hunger = hunger, !.energy = energy, !.health = h3,
               !.mood = mood, !.age = a.age + 1]

\* the two health penalties as alternatives instead of both
DecayAgent_OnePenalty(a, isNighttime) ==
  LET hunger == Min(VitalMax, a.hunger + HungerDelta)
      energy == IF isNighttime /\ a.act # "sleeping"
                  THEN Max(0, a.energy - EnergyNightDelta)
                ELSE IF a.act = "sleeping"
                  THEN Min(VitalMax, a.energy + EnergySleepDelta)
                ELSE Max(0, a.energy - EnergyDayDelta)
      h1 == IF hunger < 300 /\ energy > 600
              THEN Min(VitalMax, a.health + HealthRegen) ELSE a.health
      h3 == IF hunger > 900 THEN Max(0, h1 - HealthHungerPenalty)
            ELSE IF energy < LowEnergy THEN Max(0, h1 - HealthEnergyPenalty)
            ELSE h1
      mood == IF hunger < 400 /\ energy > 500 /\ h3 > 600
                THEN Min(VitalMax, a.mood + MoodRecovery) ELSE a.mood
  IN [a EXCEPT !.hunger = hunger, !.energy = energy, !.health = h3,
               !.mood = mood, !.age = a.age + 1]

\* decay with the rest a sleeping agent got before it was retuned (+10)
DecayAgent_OldRest(a, isNighttime) ==
  LET hunger == Min(VitalMax, a.hunger + HungerDelta)
      energy == IF isNighttime /\ a.act # "sleeping"
                  THEN Max(0, a.energy - EnergyNightDelta)
                ELSE IF a.act = "sleeping"
                  THEN Min(VitalMax, a.energy + 100)
                ELSE Max(0, a.energy - EnergyDayDelta)
      h1 == IF hunger < 300 /\ energy > 600
              THEN Min(VitalMax, a.health + HealthRegen) ELSE a.health
      h2 == IF hunger > 900 THEN Max(0, h1 - HealthHungerPenalty) ELSE h1
      h3 == IF energy < LowEnergy THEN Max(0, h2 - HealthEnergyPenalty) ELSE h2
      mood == IF hunger < 400 /\ energy > 500 /\ h3 > 600
                THEN Min(VitalMax, a.mood + MoodRecovery) ELSE a.mood
  IN [a EXCEPT !.hunger = hunger, !.energy = energy, !.health = h3,
               !.mood = mood, !.age = a.age + 1]

DecayAgent(a, isNighttime) ==
  LET hunger == Min(VitalMax, a.hunger + HungerDelta)
      energy == IF isNighttime /\ a.act # "sleeping"
                  THEN Max(0, a.energy - EnergyNightDelta)
                ELSE IF a.act = "sleeping"
                  THEN Min(VitalMax, a.energy + EnergySleepDelta)
                ELSE Max(0, a.energy - EnergyDayDelta)
      h1 == IF hunger < 300 /\ energy > 600
              THEN Min(VitalMax, a.health + HealthRegen) ELSE a.health
      h2 == IF hunger > 900 THEN Max(0, h1 - HealthHungerPenalty) ELSE h1
      h3 == IF energy < LowEnergy THEN Max(0, h2 - HealthEnergyPenalty) ELSE h2
      mood == IF hunger < 400 /\ energy > 500 /\ h3 > 600
                THEN Min(VitalMax, a.mood + MoodRecovery) ELSE a.mood
  IN [a EXCEPT !.hunger = hunger, !.energy = energy, !.health = h3,
               !.mood = mood, !.age = a.age + 1]

\* updatePhysicalNeeds over getLivingAgents(): every registered agent is alive
\* (initialize loads is_alive rows only, removeAgent deletes the dead)
updatePhysicalNeeds(ags, reg, isNighttime) ==
  [id \in Ids |-> IF id \in reg THEN DecayAgent(ags[id], isNighttime) ELSE ags[id]]

-----------------------------------------------------------------------------
(* AgentActions: what each action does to the acting agent's object.  The   *)
(* object is mutated directly; updateAgent (Object.assign on the registered *)
(* object) only matters where it writes a value the direct write did not,   *)
(* and is a no-op for an id that is not registered.                         *)

eat_Unclamped(a) ==
  [a EXCEPT !.hunger = a.hunger - 350,
            !.health = a.health + 80,
            !.energy = a.energy - 30,
            !.mood = a.mood + 50,
            !.act = "eating"]

\* eat with the hunger relief it had before it was retuned
eat_OldRelief(a) ==
  [a EXCEPT !.hunger = Max(0, a.hunger - 200),
            !.health = Min(VitalMax, a.health + 80),
            !.energy = Max(0, a.energy - 30),
            !.mood = Min(VitalMax, a.mood + 50),
            !.act = "eating"]

eat(a) ==
  [a EXCEPT !.hunger = Max(0, a.hunger - 350),
            !.health = Min(VitalMax, a.health + 80),
            !.energy = Max(0, a.energy - 30),
            !.mood = Min(VitalMax, a.mood + 50),
            !.act = "eating"]

sleep(a) == [a EXCEPT !.act = "sleeping"]

goTo(a, location, registered) ==
  [a EXCEPT !.loc = location,
            !.act = IF registered THEN At(location) ELSE "moving to " \o location]

staySilent(a, bodyLanguage) == [a EXCEPT !.act = bodyLanguage]

createSomething(a) == [a EXCEPT !.act = "creating a painting"]

reflect(a, registered) ==
  [a EXCEPT !.act = IF registered THEN "reflecting" ELSE "deep in thought"]

WorkActivity(prof) ==
  CASE prof = "healer" -> "treating patients"
    [] prof = "farmer" -> "tending crops"
    [] prof = "scholar" -> "studying texts"
    [] OTHER -> "performing tasks"

work(a) ==
  [a EXCEPT !.act = WorkActivity(a.prof),
            !.hunger = Min(VitalMax, a.hunger + 20),
            !.energy = Max(0, a.energy - 50)]

-----------------------------------------------------------------------------
(* EventManager.evaluateActionForReward: the bonus goes to every registered *)
(* agent (getAgents()).  r is the Math.random() draw of the branch taken.   *)

\* the bonus added without a clamp
BumpAll_Unclamped(ags, reg, field, delta) ==
  [id \in Ids |->
     IF id \in reg THEN [ags[id] EXCEPT ![field] = ags[id][field] + delta]
     ELSE ags[id]]

BumpAll(ags, reg, field, delta) ==
  [id \in Ids |->
     IF id \in reg
       THEN [ags[id] EXCEPT ![field] =
               IF delta >= 0 THEN Min(VitalMax, ags[id][field] + delta)
               ELSE Max(0, ags[id][field] + delta)]
       ELSE ags[id]]

evaluateActionForReward(ags, reg, actor, action, target, r) ==
  IF action \in {"help", "heal", "teach"} THEN BumpAll(ags, reg, "health", 50)
  ELSE IF action \in {"create_something", "write"} /\ r < 200
    THEN BumpAll(ags, reg, "mood", 80)
  ELSE IF action \in {"share", "donate", "give"} THEN BumpAll(ags, reg, "energy", 60)
  ELSE IF action = "talk" /\ target # 0 /\ r < 300
          /\ ags[actor].mood > 500 /\ ags[target].mood > 500
    THEN BumpAll(ags, reg, "mood", 40)
  ELSE IF action = "work" /\ ags[actor].prof = "healer" /\ r < 150
    THEN BumpAll(ags, reg, "health", 30)
  ELSE IF action = "work" /\ ags[actor].prof = "farmer" /\ r < 150
    THEN BumpAll(ags, reg, "hunger", -50)
  ELSE IF action = "work" /\ ags[actor].prof = "scholar" /\ r < 120
    THEN BumpAll(ags, reg, "mood", 50)
  ELSE ags

-----------------------------------------------------------------------------
(* AgentManager.getAgentsNeedingDecisions: the filter, with its auto-sleep  *)
(* side effect.  Returns the eligible ids and the agents after the call.    *)

Eligible(a) ==
  /\ a.act # "sleeping"
  /\ a.act # "eating"
  /\ a.act # "in_conversation"
  /\ ~(a.energy < LowEnergy)

AutoSleeps(a) ==
  /\ a.act # "sleeping"
  /\ a.act # "eating"
  /\ a.act # "in_conversation"
  /\ a.energy < LowEnergy

getAgentsNeedingDecisions(ags, reg) ==
  [list |-> {id \in reg : Eligible(ags[id])},
   ag   |-> [id \in Ids |->
               IF id \in reg /\ AutoSleeps(ags[id])
                 THEN [ags[id] EXCEPT !.act = "sleeping"] ELSE ags[id]]]

\* Array order of the Map: insertion order, which is ascending id
First(S) == CHOOSE x \in S : \A y \in S : x <= y

-----------------------------------------------------------------------------
(* SimulationEngine.handleSleepingAgents *)

WakeAgent(a) ==
  LET e == Min(VitalMax, a.energy + SleepPassDelta)
  IN IF a.act # "sleeping" THEN a
     ELSE [a EXCEPT !.energy = e,
                    !.act = IF e >= WakeEnergy THEN At(a.loc) ELSE "sleeping"]

handleSleepingAgents(ags, reg) ==
  [id \in Ids |-> IF id \in reg THEN WakeAgent(ags[id]) ELSE ags[id]]

-----------------------------------------------------------------------------
(* EventManager.checkDeathConditions and shouldSpawnNewAgent *)

DeathCause_StrictHealth(a, r) ==
  IF a.health < 0 THEN "health failure"
  ELSE IF a.age > AgeThreshold /\ r < (a.age - AgeThreshold) * 2 THEN "old age"
  ELSE "none"

\* (age - 300) * 0.002 against Math.random(): in thousandths, r < (age - 300) * 2
DeathCause(a, r) ==
  IF a.health <= 0 THEN "health failure"
  ELSE IF a.age > AgeThreshold /\ r < (a.age - AgeThreshold) * 2 THEN "old age"
  ELSE "none"

IdSeq == [i \in Ids |-> i]

\* the two rules without the continue between them: an agent can match both
checkDeathConditions_NoContinue(ags, reg, draws) ==
  LET failing == SelectSeq(IdSeq, LAMBDA id : id \in reg /\ ags[id].health <= 0)
      aged == SelectSeq(IdSeq, LAMBDA id :
                id \in reg /\ ags[id].age > AgeThreshold
                /\ draws[id] < (ags[id].age - AgeThreshold) * 2)
  IN [k \in 1..Len(failing) |-> [id |-> failing[k], cause |-> "health failure"]]
     \o [k \in 1..Len(aged) |-> [id |-> aged[k], cause |-> "old age"]]

\* the deaths array: one entry per dying agent, in registry order
checkDeathConditions(ags, reg, draws) ==
  LET dying == SelectSeq(IdSeq, LAMBDA id :
                 id \in reg /\ DeathCause(ags[id], draws[id]) # "none")
  IN [k \in 1..Len(dying) |->
        [id |-> dying[k], cause |-> DeathCause(ags[dying[k]], draws[dying[k]])]]

shouldSpawnNewAgent(population, r) ==
  IF population >= HardCap THEN FALSE
  ELSE IF population < SoftCap /\ r < SpawnPermille THEN TRUE
  ELSE FALSE

-----------------------------------------------------------------------------
(* WorldManager *)

POSSIBLE_WEATHER == <<"sunny", "cloudy", "rainy", "windy", "foggy", "clear", "overcast">>

\* the bins one day late
updateSeason_LateBins(day) ==
  LET dayInYear == day % 120
  IN IF dayInYear <= 30 THEN "spring"
     ELSE IF dayInYear <= 60 THEN "summer"
     ELSE IF dayInYear <= 90 THEN "autumn"
     ELSE "winter"

updateSeason(day) ==
  LET dayInYear == day % 120
  IN IF dayInYear < 30 THEN "spring"
     ELSE IF dayInYear < 60 THEN "summer"
     ELSE IF dayInYear < 90 THEN "autumn"
     ELSE "winter"

\* the clock running past 24:00 without wrapping
advanceTime_NoWrap(w, r, k) ==
  LET total == w.hour * 60 + w.minute + MINUTES_PER_TICK
      crossed == total >= 24 * 60
      day == IF crossed THEN w.current_day + 1 ELSE w.current_day
  IN [w EXCEPT !.current_day = day,
               !.season = IF crossed THEN updateSeason(day) ELSE w.season,
               !.weather = IF crossed /\ r < 200 THEN POSSIBLE_WEATHER[k] ELSE w.weather,
               !.hour = total \div 60,
               !.minute = total % 60]

\* r: the 20% draw of randomizeWeather, k: the index it then draws
advanceTime(w, r, k) ==
  LET total == w.hour * 60 + w.minute + MINUTES_PER_TICK
      crossed == total >= 24 * 60
      t == IF crossed THEN total % (24 * 60) ELSE total
      day == IF crossed THEN w.current_day + 1 ELSE w.current_day
  IN [w EXCEPT !.current_day = day,
               !.season = IF crossed THEN updateSeason(day) ELSE w.season,
               !.weather = IF crossed /\ r < 200 THEN POSSIBLE_WEATHER[k] ELSE w.weather,
               !.hour = t \div 60,
               !.minute = t % 60]

isNighttime(w) == w.hour >= 22 \/ w.hour < 6

\* the state the constructor and reset() set
InitialWorld ==
  [current_day |-> 1, hour |-> 8, minute |-> 0, season |-> "spring",
   weather |-> "sunny", total_births |-> 0, total_deaths |-> 0]

-----------------------------------------------------------------------------
(* Bootstrap: AgentManager.initialize and WorldManager.initialize *)

\* physical_health of the starter roster (starterAgents.ts), in tenths
StarterHealth == <<640, 780, 440, 660, 720, 700>>

\* createStarterAgents
StarterAgent(id) ==
  [health |-> StarterHealth[((id - 1) % 6) + 1], hunger |-> 300, energy |-> 800,
   age |-> 0, mood |-> 200, loc |-> "homes", act |-> "waking up", prof |-> "none"]

\* rows of the agents table an earlier run saved (is_alive = true), a sample
PersistedAgents ==
  << [health |-> 950, hunger |-> 20, energy |-> 995, age |-> 10, mood |-> 995,
      loc |-> "cafe", act |-> "at cafe", prof |-> "farmer"],
     [health |-> 10, hunger |-> 998, energy |-> 5, age |-> 799, mood |-> 0,
      loc |-> "cafe", act |-> "idle", prof |-> "healer"],
     [health |-> 700, hunger |-> 300, energy |-> 104, age |-> 301, mood |-> 600,
      loc |-> "cafe", act |-> "at cafe", prof |-> "none"] >>

\* rows of world_state an earlier run saved, a sample (as hour and minute)
PersistedWorlds ==
  { InitialWorld,
    [InitialWorld EXCEPT !.current_day = 29, !.hour = 23, !.minute = 30] }

RosterIds == 1..RosterSize

\* the registries initialize() can leave: the starter roster or loaded rows
\* a saved row of an agent two decay passes from starving to death
StarvingAgent ==
  [health |-> 20, hunger |-> 998, energy |-> 900, age |-> 10, mood |-> 100,
   loc |-> "cafe", act |-> "at cafe", prof |-> "none"]

\* a saved row of a healthy agent two decay passes from age 800
AgedAgent ==
  [health |-> 700, hunger |-> 300, energy |-> 800, age |-> 798, mood |-> 600,
   loc |-> "cafe", act |-> "at cafe", prof |-> "none"]

Rosters ==
  { [id \in Ids |-> IF id \in RosterIds THEN StarterAgent(id) ELSE NoAgent] }
  \cup
  { [id \in Ids |-> IF id \in RosterIds THEN PersistedAgents[((id + k) % 3) + 1]
                                         ELSE NoAgent] : k \in {0, 1} }

\* the rosters start() can load: the above, and one with the starving agent
BootRosters ==
  Rosters
  \cup { [id \in Ids |-> IF id = 1 THEN StarvingAgent
                         ELSE IF id \in RosterIds THEN PersistedAgents[1]
                         ELSE NoAgent] }
  \cup { [id \in Ids |-> IF id = 1 THEN PersistedAgents[2]
                         ELSE IF id \in RosterIds THEN AgedAgent
                         ELSE NoAgent] }

\* AgentManager.createAgent: the object a birth registers
SpawnAges == {18}
SpawnLocs == {"Town Square"}
NewAgent(age, loc) ==
  [health |-> 1000, hunger |-> 200, energy |-> 1000, age |-> age, mood |-> 600,
   loc |-> loc, act |-> "arriving in town", prof |-> "none"]

FreeIds(ags) == {id \in Ids : ags[id] = NoAgent}

-----------------------------------------------------------------------------
(* SimulationEngine.tick, cut at its awaits.  A segment maps the program    *)
(* state s = [ag, reg, w, tc, t, ac] (agents, registry, world, tickCount,   *)
(* this invocation's locals, activeConversations) to the states it can      *)
(* leave when it reaches its next await or returns.                         *)

IdleTick ==
  [pc |-> "idle", eligible |-> {}, agent |-> 0, target |-> 0, deaths |-> <<>>,
   i |-> 0, maxTurns |-> 0, turns |-> <<>>, reward |-> "none"]

\* oracle calls of the conversation in slot's tick that failed so far
Failures(t) == t.i - Len(t.turns)

At_pc(label) == [IdleTick EXCEPT !.pc = label]

\* steps 8-10: chronicle check, periodic saveToDatabase, world_update broadcast;
\* none of them changes the modelled state
Finish(s) == [s EXCEPT !.t = IdleTick]

\* the loop going on to the next eligible agent after the delay (K above 1)
Delay_NextAgent(s) ==
  IF s.t.eligible \ {s.t.agent} # {}
    THEN [s EXCEPT !.t = [At_pc("decide") EXCEPT
                            !.eligible = s.t.eligible \ {s.t.agent},
                            !.agent = First(s.t.eligible \ {s.t.agent})]]
    ELSE [s EXCEPT !.t = At_pc("delay")]

\* the 1 s setTimeout that ends the loop body of processAgentDecisions
Delay(s) == [s EXCEPT !.t = At_pc("delay")]

\* step 7: processAgentDecisions up to the oracle call
Decisions(s) ==
  LET el == getAgentsNeedingDecisions(s.ag, s.reg)
  IN IF el.list = {} THEN Finish([s EXCEPT !.ag = el.ag])
     ELSE [s EXCEPT !.ag = el.ag,
                    !.t = [At_pc("decide") EXCEPT !.eligible = el.list,
                                                  !.agent = First(el.list)]]

\* steps 5-7: random event (broadcast only), handleSleepingAgents, decisions
PostSpawn(s) == Decisions([s EXCEPT !.ag = handleSleepingAgents(s.ag, s.reg)])

\* step 4: shouldSpawnNewAgent, then spawnNewAgent up to generatePersonality
SpawnCheck(s) ==
  { [s EXCEPT !.t = At_pc("spawn")] :
      r \in {r \in RandomDraws : shouldSpawnNewAgent(Cardinality(s.reg), r)} }
  \cup
  { PostSpawn(s) :
      r \in {r \in RandomDraws : ~shouldSpawnNewAgent(Cardinality(s.reg), r)} }

\* step 3: the loop over deaths, up to incrementDeaths' save
AfterDeathCheck(s, deaths) ==
  IF deaths = <<>> THEN SpawnCheck(s)
  ELSE { [s EXCEPT !.w.total_deaths = @ + 1,
                   !.t = [At_pc("deaths") EXCEPT !.deaths = deaths]] }

WeatherDraws(w) ==
  IF w.hour * 60 + w.minute + MINUTES_PER_TICK >= 24 * 60
    THEN {<<999, 1>>, <<0, 3>>}
    ELSE {<<999, 1>>}

\* one Math.random() per agent that reaches the age rule
DeathDraws(ags, reg) ==
  LET drawn == {id \in reg : ags[id].health > 0 /\ ags[id].age > AgeThreshold}
  IN { [id \in Ids |-> IF id \in drawn THEN f[id] ELSE 0] :
         f \in [drawn -> RandomDraws] }

\* steps 1-3: tickCount++, advanceTime, updatePhysicalNeeds, checkDeathConditions
TickBegin(s) ==
  UNION { LET w1 == advanceTime(s.w, rk[1], rk[2])
              ag1 == updatePhysicalNeeds(s.ag, s.reg, isNighttime(w1))
              s1 == [s EXCEPT !.tc = @ + 1, !.w = w1, !.ag = ag1]
          IN UNION { AfterDeathCheck(s1, checkDeathConditions(ag1, s.reg, d)) :
                       d \in DeathDraws(ag1, s.reg) }
        : rk \in WeatherDraws(s.w) }

-----------------------------------------------------------------------------
(* ConversationEngine.startConversation, up to runConversation's first await *)

\* the availability check written with the eligibility filter's marker
BusyForConversation_FilterMarker(a) ==
  a.act = "sleeping" \/ a.act = "in_conversation" \/ a.act = "eating"

BusyForConversation(a) ==
  a.act = "sleeping" \/ a.act = "in conversation" \/ a.act = "eating"

startConversation(s, slot, initiatorId, targetId) ==
  IF initiatorId \notin s.reg \/ targetId \notin s.reg THEN { Delay(s) }
  ELSE IF BusyForConversation(s.ag[targetId]) THEN { Delay(s) }
  ELSE IF s.ag[initiatorId].loc # s.ag[targetId].loc THEN { Delay(s) }
  ELSE { [s EXCEPT !.ac = @ \cup {slot},
                   !.ag = [id \in Ids |->
                             IF id \in {initiatorId, targetId}
                               THEN [s.ag[id] EXCEPT !.act = "in conversation"]
                               ELSE s.ag[id]],
                   !.t = [At_pc("conv") EXCEPT !.agent = initiatorId,
                                               !.target = targetId,
                                               !.maxTurns = n]]
         : n \in 3..5 }

\* one pass of runConversation's loop body, from the oracle's answer to the
\* next oracle call: the turn is recorded only when the call succeeded
Speaker(t) == IF t.i % 2 = 0 THEN t.agent ELSE t.target

ConversationTurn(t, success) ==
  [t EXCEPT !.turns = IF success THEN Append(@, Speaker(t)) ELSE @,
            !.i = @ + 1,
            !.pc = IF t.i + 1 < t.maxTurns THEN "conv" ELSE "convsave"]

\* the cleanup after runConversation returns, up to the 1 s delay that follows
\* in processAgentDecisions (the transcript stays in t for the observer)
EndConversation_KeepsBusy(s, slot) ==
  [s EXCEPT !.ac = @ \ {slot}, !.t.pc = "delay"]

EndConversation(s, slot) ==
  [s EXCEPT !.ac = @ \ {slot},
            !.ag = [id \in Ids |->
                      IF id \in {s.t.agent, s.t.target}
                        THEN [s.ag[id] EXCEPT !.act = At(s.ag[id].loc)]
                        ELSE s.ag[id]],
            !.t.pc = "delay"]

-----------------------------------------------------------------------------
(* The oracle's answers to makeDecision, and AgentActions.executeAction      *)

Decision(type) == [type |-> type, loc |-> "", target |-> 0, body |-> ""]

\* target 0 stands for a target_name no registered agent bears
DecisionResults ==
  { Decision(ty) : ty \in {"none", "post_on_board", "write_diary", "eat", "sleep",
                           "create_something", "reflect", "work", "unknown"} }
  \cup { [Decision("go_to") EXCEPT !.loc = l] : l \in Locs }
  \cup { [Decision("start_conversation") EXCEPT !.target = x] : x \in Ids \cup {0} }
  \cup { [Decision("stay_silent") EXCEPT !.body = b] : b \in BodyLanguages }

\* the reward check that follows the action's own awaits
AwaitReward(s, a, action) ==
  [s EXCEPT !.t = [At_pc("act") EXCEPT !.agent = a, !.reward = action]]

executeAction(s, a, d) ==
  LET on(obj) == [s EXCEPT !.ag[a] = obj]
  IN CASE d.type = "go_to" -> Delay(on(goTo(s.ag[a], d.loc, a \in s.reg)))
       [] d.type = "post_on_board" -> Delay(s)
       [] d.type = "write_diary" -> AwaitReward(s, a, "write")
       [] d.type = "stay_silent" -> Delay(on(staySilent(s.ag[a], d.body)))
       [] d.type = "eat" -> Delay(on(eat(s.ag[a])))
       [] d.type = "sleep" -> Delay(on(sleep(s.ag[a])))
       [] d.type = "create_something" ->
            AwaitReward(on(createSomething(s.ag[a])), a, "create_something")
       [] d.type = "reflect" -> Delay(on(reflect(s.ag[a], a \in s.reg)))
       [] d.type = "work" -> AwaitReward(on(work(s.ag[a])), a, "work")
       [] OTHER -> Delay(s)

\* a failed oracle call leaving its mark on the agent
ApplyDecision_FailureMarks(s, slot, d) ==
  LET a == s.t.agent
  IN IF d.type = "none"
       THEN { Finish([s EXCEPT !.ag[a].act = "confused", !.ag[a].mood = Max(MoodMin, @ - 10)]) }
     ELSE IF d.type = "start_conversation"
       THEN IF d.target \in s.reg
              THEN startConversation(s, slot, a, d.target)
              ELSE { Delay(s) }
     ELSE { executeAction(s, a, d) }

\* processAgentDecisions from the oracle's answer to its next await
ApplyDecision(s, slot, d) ==
  LET a == s.t.agent
  IN IF d.type = "none" THEN { Finish(s) }
     ELSE IF d.type = "start_conversation"
       THEN IF d.target \in s.reg
              THEN startConversation(s, slot, a, d.target)
              ELSE { Delay(s) }
     ELSE { executeAction(s, a, d) }

-----------------------------------------------------------------------------
(* The actions *)

Cur(slot) ==
  [ag |-> agents, reg |-> registry, w |-> world, tc |-> tickCount,
   t |-> ticks[slot], ac |-> activeConversations]

Becomes(s, slot) ==
  /\ agents' = s.ag
  /\ registry' = s.reg
  /\ world' = s.w
  /\ tickCount' = s.tc
  /\ ticks' = [ticks EXCEPT ![slot] = s.t]
  /\ activeConversations' = s.ac

InFlight == {slot \in Slots : ticks[slot].pc # "idle"}
FreeSlots == Slots \ InFlight

\* start(): initialize world and agents, schedule the cron job, run the first tick
Start ==
  /\ ~isRunning
  /\ tickCount = 0
  /\ \E w \in PersistedWorlds, roster \in BootRosters :
       \E s \in TickBegin([ag |-> roster, reg |-> RosterIds, w |-> w, tc |-> 0,
                           t |-> IdleTick, ac |-> {}]) :
         Becomes(s, 1)
  /\ isRunning' = TRUE
  /\ cronJob' = TRUE
  /\ UNCHANGED unit

\* the cron callback: nothing in it looks at a tick still in flight
CronFire ==
  /\ isRunning
  /\ cronJob
  /\ tickCount < MaxTicks
  /\ FreeSlots # {}
  /\ LET slot == First(FreeSlots)
     IN \E s \in TickBegin(Cur(slot)) : Becomes(s, slot)
  /\ UNCHANGED <<isRunning, cronJob, unit>>

\* incrementDeaths' save returned: removeAgent, then the next death or step 4
DeathsResume(slot) ==
  /\ ticks[slot].pc = "deaths"
  /\ LET s == Cur(slot)
         rest == Tail(s.t.deaths)
         s1 == [s EXCEPT !.reg = @ \ {Head(s.t.deaths).id}]
     IN \E s2 \in (IF rest # <<>>
                     THEN { [s1 EXCEPT !.w.total_deaths = @ + 1, !.t.deaths = rest] }
                     ELSE SpawnCheck([s1 EXCEPT !.t = IdleTick])) :
          Becomes(s2, slot)
  /\ UNCHANGED <<isRunning, cronJob, unit>>

\* generatePersonality and createAgent's insert returned
SpawnResume(slot) ==
  /\ ticks[slot].pc = "spawn"
  /\ LET s == Cur(slot)
     IN \/ \* the insert failed: createAgent returns null
           Becomes(PostSpawn(s), slot)
        \/ \E id \in FreeIds(agents), age \in SpawnAges, loc \in SpawnLocs :
             /\ \A other \in FreeIds(agents) : id <= other
             /\ Becomes([s EXCEPT !.ag[id] = NewAgent(age, loc),
                                  !.reg = @ \cup {id},
                                  !.w.total_births = @ + 1,
                                  !.t = At_pc("births")], slot)
  /\ UNCHANGED <<isRunning, cronJob, unit>>

\* incrementBirths' save returned
BirthsResume(slot) ==
  /\ ticks[slot].pc = "births"
  /\ Becomes(PostSpawn(Cur(slot)), slot)
  /\ UNCHANGED <<isRunning, cronJob, unit>>

\* the decision oracle answered (or failed)
DecideResume(slot) ==
  /\ ticks[slot].pc = "decide"
  /\ \E d \in DecisionResults :
       \E s \in ApplyDecision(Cur(slot), slot, d) : Becomes(s, slot)
  /\ UNCHANGED <<isRunning, cronJob, unit>>

\* the action's database writes returned: evaluateActionForReward
ActResume(slot) ==
  /\ ticks[slot].pc = "act"
  /\ LET s == Cur(slot)
     IN \E r \in RandomDraws :
          Becomes(Delay([s EXCEPT !.ag = evaluateActionForReward(
                            s.ag, s.reg, s.t.agent, s.t.reward, 0, r)]), slot)
  /\ UNCHANGED <<isRunning, cronJob, unit>>

\* getConversationResponse returned for turn i
ConvTurn(slot) ==
  /\ ticks[slot].pc = "conv"
  /\ \E success \in BOOLEAN :
       /\ success \/ Failures(ticks[slot]) < MaxTurnFailures
       /\ Becomes([Cur(slot) EXCEPT !.t = ConversationTurn(@, success)], slot)
  /\ UNCHANGED <<isRunning, cronJob, unit>>

\* saveConversation, the memories and the relationship update returned
ConvClose(slot) ==
  /\ ticks[slot].pc = "convsave"
  /\ Becomes(EndConversation(Cur(slot), slot), slot)
  /\ UNCHANGED <<isRunning, cronJob, unit>>

\* the 1 s delay elapsed: steps 8-10, and tick() returns
DelayResume(slot) ==
  /\ ticks[slot].pc = "delay"
  /\ Becomes(Finish(Cur(slot)), slot)
  /\ UNCHANGED <<isRunning, cronJob, unit>>

NoUnit == [op |-> "none"]

\* the state the constructors leave
Constructed ==
  /\ isRunning = FALSE
  /\ cronJob = FALSE
  /\ tickCount = 0
  /\ world = InitialWorld
  /\ agents = [id \in Ids |-> NoAgent]
  /\ registry = {}
  /\ ticks = [slot \in Slots |-> IdleTick]
  /\ activeConversations = {}

Init == Constructed /\ unit = NoUnit

Next ==
  \/ Start
  \/ CronFire
  \/ \E slot \in Slots : DeathsResume(slot)
  \/ \E slot \in Slots : SpawnResume(slot)
  \/ \E slot \in Slots : BirthsResume(slot)
  \/ \E slot \in Slots : DecideResume(slot)
  \/ \E slot \in Slots : ActResume(slot)
  \/ \E slot \in Slots : ConvTurn(slot)
  \/ \E slot \in Slots : ConvClose(slot)
  \/ \E slot \in Slots : DelayResume(slot)

Spec == Init /\ [][Next]_vars

\* Every awaited call of a conversation settles: getConversationResponse turns
\* a rejection into {success: false}, the database client resolves with
\* {data, error}, and the timers fire.
FairSpec ==
  /\ Spec
  /\ \A slot \in Slots : WF_vars(ConvTurn(slot)) /\ WF_vars(ConvClose(slot))

engine == <<isRunning, cronJob, tickCount, world, agents, registry, ticks,
            activeConversations>>

-----------------------------------------------------------------------------
(* AgentManager.updatePhysicalNeeds on its own.  The input is one registered *)
(* agent; its vitals are whatever the agents row held, for initialize()      *)
(* copies physical_state and mental_state from the row without a check and   *)
(* the schema puts no constraint on them.                                    *)

DecayHealths == {-50, 0, 2, 500, 605, 1000, 1100}
DecayHungers == {-50, 0, 295, 950, 998, 1000, 1100}
DecayEnergies == {-50, 0, 50, 104, 600, 998, 1000, 1100}
DecayMoods == {-1100, -1000, 0, 995, 1000, 1100}

DecayInputs ==
  [health : DecayHealths, hunger : DecayHungers, energy : DecayEnergies,
   age : {0}, mood : DecayMoods, loc : {"homes"}, act : {"sleeping", "idle"},
   prof : {"none"}]

InitDecay ==
  /\ Constructed
  /\ unit \in { [op |-> "decay", done |-> FALSE, a |-> a, night |-> n, out |-> a] :
                  a \in DecayInputs, n \in BOOLEAN }

DecayStep ==
  /\ unit.op = "decay"
  /\ ~unit.done
  /\ unit' = [unit EXCEPT
                !.done = TRUE,
                !.out = updatePhysicalNeeds([id \in Ids |-> unit.a], {1}, unit.night)[1]]
  /\ UNCHANGED engine

SpecDecay == InitDecay /\ [][DecayStep]_vars

-----------------------------------------------------------------------------
(* EventManager.checkDeathConditions on its own, over two registered agents *)

DeathIds == {1, 2}
DeathHealths == {-5, 0, 1, 500}
DeathAges == {0, 300, 301, 325, 800, 900}

DeathInputs ==
  [health : DeathHealths, hunger : {300}, energy : {800}, age : DeathAges,
   mood : {0}, loc : {"homes"}, act : {"idle"}, prof : {"none"}]

InitDeath ==
  /\ Constructed
  /\ unit \in { [op |-> "death", done |-> FALSE,
                 ags |-> [id \in Ids |-> IF id \in DeathIds THEN f[id] ELSE NoAgent],
                 draws |-> [id \in Ids |-> IF id \in DeathIds THEN d[id] ELSE 0],
                 out |-> <<>>] :
                  f \in [DeathIds -> DeathInputs], d \in [DeathIds -> RandomDraws] }

DeathStep ==
  /\ unit.op = "death"
  /\ ~unit.done
  /\ unit' = [unit EXCEPT
                !.done = TRUE,
                !.out = checkDeathConditions(unit.ags, DeathIds, unit.draws)]
  /\ UNCHANGED engine

SpecDeath == InitDeath /\ [][DeathStep]_vars

-----------------------------------------------------------------------------
(* The spawn path of tick() on its own, reduced to the size of the registry. *)
(* Step 4 tests shouldSpawnNewAgent and then awaits generatePersonality and  *)
(* the insert before createAgent adds the agent; the invocations of tick()   *)
(* the cron job started meanwhile run the same test on the same registry.    *)

\* invocations of tick() that may be between the test and the registration
MaxPending == 4

InitSpawn ==
  /\ Constructed
  /\ unit \in { [op |-> "spawn", population |-> n, pending |-> 0, birthFrom |-> -1] :
                  n \in 0..HardCap }

\* tick() step 4: the test passes and spawnNewAgent starts
SpawnTest ==
  /\ unit.op = "spawn"
  /\ unit.pending < MaxPending
  /\ \E r \in RandomDraws : shouldSpawnNewAgent(unit.population, r)
  /\ unit' = [unit EXCEPT !.pending = @ + 1]
  /\ UNCHANGED engine

\* createAgent: this.agents.set; birthFrom is the population it found
SpawnRegister ==
  /\ unit.op = "spawn"
  /\ unit.pending > 0
  /\ unit' = [unit EXCEPT !.pending = @ - 1, !.population = @ + 1,
                          !.birthFrom = unit.population]
  /\ UNCHANGED engine

\* createAgent returns null: the insert failed
SpawnInsertFails ==
  /\ unit.op = "spawn"
  /\ unit.pending > 0
  /\ unit' = [unit EXCEPT !.pending = @ - 1]
  /\ UNCHANGED engine

\* removeAgent of a death
SpawnDeath ==
  /\ unit.op = "spawn"
  /\ unit.population > 0
  /\ unit' = [unit EXCEPT !.population = @ - 1]
  /\ UNCHANGED engine

NextSpawn == SpawnTest \/ SpawnRegister \/ SpawnInsertFails \/ SpawnDeath

SpecSpawn == InitSpawn /\ [][NextSpawn]_vars

-----------------------------------------------------------------------------
(* Properties *)

\* C1: no two invocations of tick() are in flight at the same time: at most
\* one tick is between its first statement and its return.
C1_NoConcurrentTicks == Cardinality(InFlight) <= 1

\* C2: in every reachable state every registered agent has health, hunger and
\* energy within [0, 100] and mood_score within [-100, 100].
C2_VitalsInBounds ==
  \A id \in registry :
    /\ agents[id].health \in 0..VitalMax
    /\ agents[id].hunger \in 0..VitalMax
    /\ agents[id].energy \in 0..VitalMax
    /\ agents[id].mood \in MoodMin..VitalMax

\* an agent has eaten and both of eat's clamps were hit: health stopped at 100
\* and hunger at 0
C2_Witness ==
  \E id \in registry :
    /\ agents[id].act = "eating"
    /\ agents[id].health = VitalMax
    /\ agents[id].hunger = 0

\* C3: whatever values an agent holds before the decay pass, values outside
\* the bounds included, after the pass its health, hunger and energy are
\* within [0, 100] and its mood_score within [-100, 100].
C3_DecayClampsAnyInput ==
  (unit.op = "decay" /\ unit.done) =>
    /\ unit.out.health \in 0..VitalMax
    /\ unit.out.hunger \in 0..VitalMax
    /\ unit.out.energy \in 0..VitalMax
    /\ unit.out.mood \in MoodMin..VitalMax

\* C4: for an agent with activity 'sleeping' and energy within its bounds, by
\* day and by night, the decay pass leaves energy strictly greater than before
\* when it was below 100, at 100 when it was 100, and never lower than before.
C4_SleepNeverDrains ==
  (unit.op = "decay" /\ unit.done /\ unit.a.act = "sleeping"
     /\ unit.a.energy \in 0..VitalMax) =>
    /\ unit.a.energy < VitalMax => unit.out.energy > unit.a.energy
    /\ unit.a.energy = VitalMax => unit.out.energy = VitalMax
    /\ unit.out.energy >= unit.a.energy

\* a sleeping agent below 100 went through the pass at night and gained energy
C4_Witness ==
  /\ unit.op = "decay"
  /\ unit.done
  /\ unit.night
  /\ unit.a.act = "sleeping"
  /\ unit.a.energy < VitalMax
  /\ unit.out.energy > unit.a.energy

\* C5: at the end of a call of getAgentsNeedingDecisions no returned agent has
\* activity 'sleeping', 'eating' or 'in conversation', and every registered
\* agent whose energy is below 10 is left out of the result and has activity
\* 'sleeping'.  (The call changes no energy, and the step that makes the call
\* changes nothing after it, so the state after the step is the state at the
\* end of the call.)
C5_EligibilityFilter ==
  [][\A slot \in Slots :
       (ticks[slot].pc # "decide" /\ ticks'[slot].pc = "decide") =>
         /\ \A id \in ticks'[slot].eligible :
              agents'[id].act \notin {"sleeping", "eating", "in conversation"}
         /\ \A id \in registry' :
              agents'[id].energy < LowEnergy =>
                id \notin ticks'[slot].eligible /\ agents'[id].act = "sleeping"]_vars

\* C6: checkDeathConditions reports an agent with cause 'health failure'
\* exactly when its health is at or below 0 at the check, whatever its age and
\* whatever the random draw.
C6_HealthFailureIffNoHealth ==
  (unit.op = "death" /\ unit.done) =>
    \A id \in DeathIds :
      (\E k \in 1..Len(unit.out) :
         unit.out[k].id = id /\ unit.out[k].cause = "health failure")
      <=> unit.ags[id].health <= 0

\* an agent past the age threshold with health exactly 0 was reported with
\* 'health failure', and one with health left was not
C6_Witness ==
  /\ unit.op = "death"
  /\ unit.done
  /\ \E k \in 1..Len(unit.out) :
       /\ unit.out[k].cause = "health failure"
       /\ unit.ags[unit.out[k].id].health = 0
       /\ unit.ags[unit.out[k].id].age > AgeThreshold
  /\ \E id \in DeathIds :
       /\ unit.ags[id].health > 0
       /\ \A k \in 1..Len(unit.out) : unit.out[k].id # id

\* C7: shouldSpawnNewAgent returns false at population 10 or more whatever the
\* draw, so no birth is registered from a state whose population is 10 or more.
C7_NoBirthAtCap ==
  unit.op = "spawn" =>
    /\ \A r \in RandomDraws :
         unit.population >= HardCap => ~shouldSpawnNewAgent(unit.population, r)
    /\ unit.birthFrom < HardCap

\* C8: every conversation that ran its turns has between 3 and 5 turns in its
\* transcript, oracle failures included.
C8_TurnCount ==
  \A slot \in Slots :
    (ticks[slot].maxTurns > 0 /\ ticks[slot].pc \in {"convsave", "delay"}) =>
      Len(ticks[slot].turns) \in 3..5

\* C9: in every conversation between two agents the first turn of the
\* transcript is the initiator's and consecutive turns have different
\* speakers, oracle failures included.
C9_SpeakersAlternate ==
  \A slot \in Slots :
    LET t == ticks[slot]
    IN (t.maxTurns > 0 /\ t.agent # t.target) =>
         /\ t.turns # <<>> => t.turns[1] = t.agent
         /\ \A k \in 1..(Len(t.turns) - 1) : t.turns[k] # t.turns[k + 1]

Participants(slot) == {ticks[slot].agent, ticks[slot].target}

\* C11: while a conversation is active neither participant is returned by
\* getAgentsNeedingDecisions, and no agent takes part in two active
\* conversations at the same time.
C11_OneConversationPerAgent ==
  /\ [][\A slot \in Slots :
          (ticks[slot].pc # "decide" /\ ticks'[slot].pc = "decide") =>
            \A c \in activeConversations' \ {slot} :
              ticks'[slot].eligible \cap {ticks'[c].agent, ticks'[c].target} = {}]_vars
  /\ [](\A c1, c2 \in activeConversations :
          c1 # c2 => Participants(c1) \cap Participants(c2) = {})

-----------------------------------------------------------------------------
(* EventManager.evaluateActionForReward on its own.  Agents 1 and 2 are     *)
(* registered and agent 3 is the object of an agent removeAgent deleted.    *)

NoReward == [field |-> "none", delta |-> 0]

\* the reward the call announces through rewardCallback: the field it names
\* and the bonus, in tenths
RewardFor(ags, actor, action, target, r) ==
  IF action \in {"help", "heal", "teach"} THEN [field |-> "health", delta |-> 50]
  ELSE IF action \in {"create_something", "write"} /\ r < 200
    THEN [field |-> "mood", delta |-> 80]
  ELSE IF action \in {"share", "donate", "give"} THEN [field |-> "energy", delta |-> 60]
  ELSE IF action = "talk" /\ target # 0 /\ r < 300
          /\ ags[actor].mood > 500 /\ ags[target].mood > 500
    THEN [field |-> "mood", delta |-> 40]
  ELSE IF action = "work" /\ ags[actor].prof = "healer" /\ r < 150
    THEN [field |-> "health", delta |-> 30]
  ELSE IF action = "work" /\ ags[actor].prof = "farmer" /\ r < 150
    THEN [field |-> "hunger", delta |-> -50]
  ELSE IF action = "work" /\ ags[actor].prof = "scholar" /\ r < 120
    THEN [field |-> "mood", delta |-> 50]
  ELSE NoReward

RewardIds == {1, 2}
RewardActions == {"help", "write", "create_something", "share", "talk", "work", "eat"}
RewardDraws == {0, 119, 120, 149, 150, 199, 200, 299, 300, 999}

RewardActors ==
  [health : {0, 960, 1000}, hunger : {0, 30, 1000}, energy : {0, 950, 1000},
   age : {0}, mood : {-1000, 500, 510, 970, 1000}, loc : {"homes"},
   act : {"idle"}, prof : {"none", "healer", "farmer", "scholar"}]

RewardOthers ==
  { [health |-> 975, hunger |-> 20, energy |-> 945, age |-> 5, mood |-> 501,
     loc |-> "homes", act |-> "eating", prof |-> "none"],
    [health |-> 3, hunger |-> 990, energy |-> 10, age |-> 5, mood |-> -990,
     loc |-> "cafe", act |-> "sleeping", prof |-> "farmer"],
    [health |-> 500, hunger |-> 500, energy |-> 500, age |-> 5, mood |-> 965,
     loc |-> "homes", act |-> "at homes", prof |-> "none"] }

\* the object of an agent that died: still on the heap, no longer in the Map
RemovedAgent ==
  [health |-> 0, hunger |-> 1000, energy |-> 400, age |-> 310, mood |-> 100,
   loc |-> "homes", act |-> "idle", prof |-> "none"]

InitReward ==
  /\ Constructed
  /\ unit \in { [op |-> "reward", done |-> FALSE,
                 ags |-> [id \in Ids |-> IF id = 1 THEN a
                                         ELSE IF id = 2 THEN b ELSE RemovedAgent],
                 action |-> action,
                 target |-> IF action = "talk" THEN 2 ELSE 0,
                 r |-> r,
                 out |-> [id \in Ids |-> NoAgent]] :
                  a \in RewardActors, b \in RewardOthers,
                  action \in RewardActions, r \in RewardDraws }

RewardStep ==
  /\ unit.op = "reward"
  /\ ~unit.done
  /\ unit' = [unit EXCEPT
                !.done = TRUE,
                !.out = evaluateActionForReward(unit.ags, RewardIds, 1, unit.action,
                                                unit.target, unit.r)]
  /\ UNCHANGED engine

SpecReward == InitReward /\ [][RewardStep]_vars

\* a value brought back into the bounds of its field
Clamped(field, v) ==
  IF v > VitalMax THEN VitalMax
  ELSE IF field = "mood" THEN (IF v < MoodMin THEN MoodMin ELSE v)
  ELSE IF v < 0 THEN 0
  ELSE v

\* C12: when evaluateActionForReward triggers a reward, the field the reward
\* names changes for every living agent by exactly the reward's delta, clamped
\* to the field's bounds, and no other field of any agent changes (the agent
\* that is not registered changes in no field).
C12_RewardExactDelta ==
  (unit.op = "reward" /\ unit.done) =>
    LET rw == RewardFor(unit.ags, 1, unit.action, unit.target, unit.r)
    IN rw # NoReward =>
         \A id \in Ids :
           \A f \in DOMAIN unit.ags[id] :
             unit.out[id][f] =
               IF id \in RewardIds /\ f = rw.field
                 THEN Clamped(f, unit.ags[id][f] + rw.delta)
                 ELSE unit.ags[id][f]

\* a working farmer's reward was triggered: one agent's hunger fell by exactly
\* 5 and the other's was clamped at 0
C12_Witness ==
  /\ unit.op = "reward"
  /\ unit.done
  /\ unit.action = "work"
  /\ RewardFor(unit.ags, 1, unit.action, unit.target, unit.r).field = "hunger"
  /\ unit.ags[1].hunger = 30 /\ unit.out[1].hunger = 0
  /\ unit.out[2].hunger = unit.ags[2].hunger - 50

\* the agent of the decay scenario: hunger 95, energy 5, health 50, awake, at night
DecayScenario ==
  /\ unit.op = "decay"
  /\ unit.a.hunger = 950
  /\ unit.a.energy = 50
  /\ unit.a.health = 500
  /\ unit.a.act # "sleeping"
  /\ unit.night

\* C13 as stated: one decay pass at night on an awake agent with hunger 95,
\* energy 5 and health 50 leaves hunger at 100 (clamped), energy below 5 and
\* health below 50 by both the hunger penalty and the energy penalty.
C13_ScenarioAsStated ==
  (DecayScenario /\ unit.done) =>
    /\ unit.out.hunger = VitalMax
    /\ unit.out.energy < 50
    /\ unit.out.health = 500 - HealthHungerPenalty - HealthEnergyPenalty

\* C13, corrected: the pass leaves hunger at 95.5 (raised by 0.5, below the
\* clamp), energy at 3.5 (the awake-at-night 1.5) and health at 48.2 (50 less
\* the hunger penalty 1.5 and the energy penalty 0.3).
C13_DecayScenario ==
  (DecayScenario /\ unit.done) =>
    /\ unit.out.hunger = 955
    /\ unit.out.energy = 35
    /\ unit.out.health = 482

\* the scenario's agent went through the pass
C13_Witness == DecayScenario /\ unit.done /\ unit.out.age = unit.a.age + 1

-----------------------------------------------------------------------------
(* WorldManager.saveToDatabase and WorldManager.initialize on the one row   *)
(* of world_state (id = 1, inserted by the schema).  The model keeps        *)
(* time_of_day as hour and minute; the row holds the string the code        *)
(* writes, and reading it back is split(':').map(Number).                   *)

Digit == <<"0", "1", "2", "3", "4", "5", "6", "7", "8", "9">>

\* String(n).padStart(2, '0') for n below 100
PadStart2(n) == Digit[(n \div 10) + 1] \o Digit[(n % 10) + 1]

\* `${hours}:${minutes}` of advanceTime
FormatTime(hour, minute) == PadStart2(hour) \o ":" \o PadStart2(minute)

\* time_of_day.split(':').map(Number), for the strings FormatTime writes
TimePairs == { <<FormatTime(h, m), <<h, m>>>> : h \in 0..23, m \in 0..59 }

ParseTime(str) == (CHOOSE p \in TimePairs : p[1] = str)[2]

\* the row the schema inserts
DefaultWorldRow ==
  [current_day |-> 1, time_of_day |-> "08:00", season |-> "spring",
   weather |-> "sunny", total_births |-> 0, total_deaths |-> 0]

\* saveToDatabase's update leaves out total_births and total_deaths
WorldRow_DropsCounters(w, old) ==
  [old EXCEPT !.current_day = w.current_day,
              !.time_of_day = FormatTime(w.hour, w.minute),
              !.season = w.season,
              !.weather = w.weather]

\* saveToDatabase: the update of row 1
WorldRow(w, old) ==
  [old EXCEPT !.current_day = w.current_day,
              !.time_of_day = FormatTime(w.hour, w.minute),
              !.season = w.season,
              !.weather = w.weather,
              !.total_births = w.total_births,
              !.total_deaths = w.total_deaths]

\* initialize: this.state from the row
WorldFromRow(row) ==
  LET hm == ParseTime(row.time_of_day)
  IN [current_day |-> row.current_day, hour |-> hm[1], minute |-> hm[2],
      season |-> row.season, weather |-> row.weather,
      total_births |-> row.total_births, total_deaths |-> row.total_deaths]

WorldSamples ==
  [current_day : {1, 29, 120, 365}, hour : {0, 8, 9, 23}, minute : {0, 30},
   season : {"spring", "summer", "autumn", "winter"},
   weather : {POSSIBLE_WEATHER[k] : k \in 1..Len(POSSIBLE_WEATHER)},
   total_births : {0, 3}, total_deaths : {0, 12}]

InitWorldRoundTrip ==
  /\ Constructed
  /\ unit \in { [op |-> "world", phase |-> "start", w |-> w, row |-> DefaultWorldRow,
                 saved |-> FALSE, read |-> FALSE, loaded |-> InitialWorld] :
                  w \in WorldSamples }

\* saveToDatabase; the update may fail, and its error is not looked at
WorldSave ==
  /\ unit.op = "world"
  /\ unit.phase = "start"
  /\ \E ok \in BOOLEAN :
       unit' = [unit EXCEPT !.phase = "saved",
                            !.saved = ok,
                            !.row = IF ok THEN WorldRow(unit.w, @) ELSE @]
  /\ UNCHANGED engine

\* the next process: the constructor's state, then initialize; without data
\* the constructor's state stays
WorldLoad ==
  /\ unit.op = "world"
  /\ unit.phase = "saved"
  /\ \E ok \in BOOLEAN :
       unit' = [unit EXCEPT !.phase = "loaded",
                            !.read = ok,
                            !.loaded = IF ok THEN WorldFromRow(unit.row)
                                             ELSE InitialWorld]
  /\ UNCHANGED engine

SpecWorldRoundTrip == InitWorldRoundTrip /\ [][WorldSave \/ WorldLoad]_vars

\* C14: a world state saved with saveToDatabase and then loaded with
\* initialize at bootstrap has the same current_day, time_of_day, season,
\* weather, total_births and total_deaths (both database calls succeeding).
C14_WorldRoundTrip ==
  (unit.op = "world" /\ unit.phase = "loaded" /\ unit.saved /\ unit.read) =>
    /\ unit.loaded.current_day = unit.w.current_day
    /\ FormatTime(unit.loaded.hour, unit.loaded.minute)
         = FormatTime(unit.w.hour, unit.w.minute)
    /\ unit.loaded.hour = unit.w.hour /\ unit.loaded.minute = unit.w.minute
    /\ unit.loaded.season = unit.w.season
    /\ unit.loaded.weather = unit.w.weather
    /\ unit.loaded.total_births = unit.w.total_births
    /\ unit.loaded.total_deaths = unit.w.total_deaths

\* a state that differs from the schema's row in every field went through the
\* save and the load
C14_Witness ==
  /\ unit.op = "world"
  /\ unit.phase = "loaded"
  /\ unit.saved /\ unit.read
  /\ unit.w.current_day = 365 /\ unit.w.hour = 23 /\ unit.w.minute = 30
  /\ unit.w.season = "winter" /\ unit.w.weather = "foggy"
  /\ unit.w.total_births = 3 /\ unit.w.total_deaths = 12
  /\ unit.row.time_of_day = "23:30"
  /\ unit.loaded = unit.w

-----------------------------------------------------------------------------
(* SimulationEngine.tick phase by phase, one invocation at a time: the      *)
(* scheduler as it runs while every tick returns before the next cron       *)
(* minute.  u is the engine's state together with what an observer of the   *)
(* tick records: the phases that ran (log), the night flag decay was given, *)
(* the ids reported dead, the ids in the world_update broadcast, the phase  *)
(* in which an error was raised.                                            *)

\* ticks the cron job starts in one behaviour of this specification
MaxTickRuns == 2
\* saveToDatabase runs when tickCount % 5 === 0
FlushEvery == 5

TryPhases == {"clock", "decay", "deathcheck", "deathapply", "spawn", "event",
              "sleep", "select", "oracle", "flush", "broadcast"}

\* tick() up to its try: tickCount++ and the banner
TickHeader(u) ==
  [u EXCEPT !.pc = "clock", !.tc = @ + 1, !.started = @ + 1, !.log = <<>>,
            !.deaths = <<>>, !.reported = {}, !.agent = 0, !.failed = FALSE,
            !.raised = "none", !.snapshot = {}, !.flushed = FALSE,
            !.announced = FALSE, !.detached = FALSE]

\* 1. advanceTime
TickClock(u, rk) ==
  [u EXCEPT !.pc = "decay", !.w0 = u.w, !.w = advanceTime(u.w, rk[1], rk[2]),
            !.log = Append(@, "clock advance")]

\* decay given the night flag of the clock before it was advanced
TickDecay_StaleNight(u) ==
  [u EXCEPT !.pc = "deathcheck", !.night = isNighttime(u.w0),
            !.ag = updatePhysicalNeeds(u.ag, u.reg, isNighttime(u.w0)),
            !.log = Append(@, "decay")]

\* 2. updatePhysicalNeeds(isNighttime())
TickDecay(u) ==
  [u EXCEPT !.pc = "deathcheck", !.night = isNighttime(u.w),
            !.ag = updatePhysicalNeeds(u.ag, u.reg, isNighttime(u.w)),
            !.log = Append(@, "decay")]

\* 3. checkDeathConditions
TickDeathCheck(u, draws) ==
  LET deaths == checkDeathConditions(u.ag, u.reg, draws)
  IN [u EXCEPT !.pc = "deathapply", !.deaths = deaths,
               !.reported = {deaths[k].id : k \in 1..Len(deaths)},
               !.log = Append(@, "death evaluation")]

\* 3. the loop over deaths: incrementDeaths, removeAgent; then agent_died
TickDeathApply(u) ==
  [u EXCEPT !.pc = "spawn", !.w.total_deaths = @ + Len(u.deaths),
            !.reg = @ \ u.reported,
            !.announced = u.deaths # <<>>,
            !.log = Append(@, "death application")]

\* 4. shouldSpawnNewAgent and spawnNewAgent
TickSpawn(u) ==
  LET done == [u EXCEPT !.pc = "event", !.log = Append(@, "spawn")]
      id == First(FreeIds(u.ag))
  IN UNION { IF shouldSpawnNewAgent(Cardinality(u.reg), r) /\ FreeIds(u.ag) # {}
               THEN { done }
                    \cup { [done EXCEPT !.ag[id] = NewAgent(age, loc),
                                        !.reg = @ \cup {id},
                                        !.w.total_births = @ + 1] :
                             age \in SpawnAges, loc \in SpawnLocs }
               ELSE { done }
           : r \in RandomDraws }

\* 5. generateRandomEvent: a broadcast at most
TickEvent(u) == [u EXCEPT !.pc = "sleep", !.log = Append(@, "random event")]

\* 6. handleSleepingAgents
TickSleep(u) ==
  [u EXCEPT !.pc = "select", !.ag = handleSleepingAgents(u.ag, u.reg),
            !.log = Append(@, "sleeping-agent pass")]

\* 7. processAgentDecisions up to makeDecision
TickSelect(u) ==
  LET el == getAgentsNeedingDecisions(u.ag, u.reg)
  IN IF el.list = {}
       THEN [u EXCEPT !.pc = "flush", !.ag = el.ag,
                      !.log = Append(@, "decision pipeline")]
       ELSE [u EXCEPT !.pc = "oracle", !.ag = el.ag, !.agent = First(el.list)]

\* what is left of the decision once every call it awaits has returned:
\* the conversation has run and been cleaned up, the reward check is done
Settled(s, r) ==
  IF s.t.pc = "conv" THEN EndConversation(s, 1)
  ELSE IF s.t.pc = "act"
    THEN [s EXCEPT !.ag = evaluateActionForReward(s.ag, s.reg, s.t.agent,
                                                  s.t.reward, 0, r)]
  ELSE s

\* whether the decision made a broadcast nobody awaits: the reward callback
\* and the conversation callback call broadcast() and drop its promise
DetachedBroadcast(s, r) ==
  \/ s.t.pc = "conv"
  \/ /\ s.t.pc = "act"
     /\ RewardFor(s.ag, s.t.agent, s.t.reward, 0, r) # NoReward

\* 7. processAgentDecisions from the oracle's answer (d.type "none": the call
\* failed) to its return
TickOracle(u, d, r) ==
  LET s == [ag |-> u.ag, reg |-> u.reg, w |-> u.w, tc |-> u.tc,
            t |-> [At_pc("decide") EXCEPT !.agent = u.agent], ac |-> {}]
  IN { [u EXCEPT !.pc = "flush", !.ag = Settled(s2, r).ag,
                 !.failed = (d.type = "none"),
                 !.detached = DetachedBroadcast(s2, r),
                 !.log = Append(@, "decision pipeline")] :
         s2 \in ApplyDecision(s, 1, d) }

\* 9. saveToDatabase every fifth tick
TickFlush(u) ==
  IF u.tc % FlushEvery = 0
    THEN [u EXCEPT !.pc = "broadcast", !.flushed = TRUE,
                   !.log = Append(@, "persistence flush")]
    ELSE [u EXCEPT !.pc = "broadcast"]

\* 10. the world_update broadcast of getAgents(), and tick() returns
TickBroadcast(u) ==
  [u EXCEPT !.pc = "returned", !.snapshot = u.reg,
            !.log = Append(@, "world_update broadcast")]

\* the catch of tick(): the error is logged and tick() returns
TickCatch(u) == [u EXCEPT !.pc = "returned", !.raised = u.pc]

\* the clock at start-up: the saved rows, and half an hour before nightfall
TickWorlds ==
  PersistedWorlds \cup { [InitialWorld EXCEPT !.hour = 21, !.minute = 30] }

TickInputs ==
  { [op |-> "tick", pc |-> "returned", running |-> TRUE, started |-> 0, tc |-> tc,
     w |-> w, w0 |-> w, night |-> FALSE, ag |-> roster, reg |-> RosterIds,
     log |-> <<>>, deaths |-> <<>>, reported |-> {}, agent |-> 0,
     failed |-> FALSE, raised |-> "none", snapshot |-> {}, flushed |-> FALSE,
     announced |-> FALSE, detached |-> FALSE, unhandled |-> FALSE] :
      tc \in {3, 4}, w \in TickWorlds, roster \in Rosters }

InitTick == Constructed /\ unit \in TickInputs

\* the cron schedule fires (the previous tick has returned)
PhaseCron ==
  /\ unit.op = "tick" /\ unit.pc = "returned"
  /\ unit.running
  /\ unit.started < MaxTickRuns
  /\ unit' = TickHeader(unit)
  /\ UNCHANGED engine

PhaseClock ==
  /\ unit.op = "tick" /\ unit.pc = "clock"
  /\ \E rk \in WeatherDraws(unit.w) : unit' = TickClock(unit, rk)
  /\ UNCHANGED engine

PhaseDecay ==
  /\ unit.op = "tick" /\ unit.pc = "decay"
  /\ unit' = TickDecay(unit)
  /\ UNCHANGED engine

PhaseDeathCheck ==
  /\ unit.op = "tick" /\ unit.pc = "deathcheck"
  /\ \E d \in DeathDraws(unit.ag, unit.reg) : unit' = TickDeathCheck(unit, d)
  /\ UNCHANGED engine

PhaseDeathApply ==
  /\ unit.op = "tick" /\ unit.pc = "deathapply"
  /\ unit' = TickDeathApply(unit)
  /\ UNCHANGED engine

PhaseSpawn ==
  /\ unit.op = "tick" /\ unit.pc = "spawn"
  /\ \E u \in TickSpawn(unit) : unit' = u
  /\ UNCHANGED engine

PhaseEvent ==
  /\ unit.op = "tick" /\ unit.pc = "event"
  /\ unit' = TickEvent(unit)
  /\ UNCHANGED engine

PhaseSleep ==
  /\ unit.op = "tick" /\ unit.pc = "sleep"
  /\ unit' = TickSleep(unit)
  /\ UNCHANGED engine

PhaseSelect ==
  /\ unit.op = "tick" /\ unit.pc = "select"
  /\ unit' = TickSelect(unit)
  /\ UNCHANGED engine

PhaseOracle ==
  /\ unit.op = "tick" /\ unit.pc = "oracle"
  /\ \E d \in DecisionResults, r \in RandomDraws :
       \E u \in TickOracle(unit, d, r) : unit' = u
  /\ UNCHANGED engine

PhaseFlush ==
  /\ unit.op = "tick" /\ unit.pc = "flush"
  /\ unit' = TickFlush(unit)
  /\ UNCHANGED engine

PhaseBroadcast ==
  /\ unit.op = "tick" /\ unit.pc = "broadcast"
  /\ unit' = TickBroadcast(unit)
  /\ UNCHANGED engine

\* an error raised in the phase the tick is in
PhaseError ==
  /\ unit.op = "tick" /\ unit.pc \in TryPhases
  /\ unit' = TickCatch(unit)
  /\ UNCHANGED engine

NextTick ==
  \/ PhaseCron
  \/ PhaseClock
  \/ PhaseDecay
  \/ PhaseDeathCheck
  \/ PhaseDeathApply
  \/ PhaseSpawn
  \/ PhaseEvent
  \/ PhaseSleep
  \/ PhaseSelect
  \/ PhaseOracle
  \/ PhaseFlush
  \/ PhaseBroadcast
  \/ PhaseError

SpecTick == InitTick /\ [][NextTick]_vars

\* C16: when the decision oracle fails, the decision phase leaves the agents
\* and the registry exactly as they were, raises no error, and the tick goes
\* on to the persistence flush (when one is due) and the world_update
\* broadcast.
C16_FailedDecisionIsNoDecision ==
  /\ [][ (unit.op = "tick" /\ unit.pc = "oracle" /\ unit'.failed)
           => /\ unit'.ag = unit.ag
              /\ unit'.reg = unit.reg
              /\ unit'.w = unit.w
              /\ unit'.raised = "none"
              /\ unit'.pc = "flush" ]_vars
  /\ [][ (unit.op = "tick" /\ unit.pc = "flush" /\ unit.failed /\ unit'.raised = "none")
           => /\ unit'.pc = "broadcast"
              /\ unit'.flushed = (unit.tc % FlushEvery = 0) ]_vars
  /\ [][ (unit.op = "tick" /\ unit.pc = "broadcast" /\ unit.failed /\ unit'.raised = "none")
           => /\ unit'.pc = "returned"
              /\ unit'.snapshot = unit.reg
              /\ unit'.log[Len(unit'.log)] = "world_update broadcast" ]_vars

\* a tick whose decision failed has flushed and broadcast, the agent it asked
\* for still in the registry and still eligible for a decision
C16_Witness ==
  /\ unit.op = "tick" /\ unit.pc = "returned"
  /\ unit.failed /\ unit.raised = "none"
  /\ unit.flushed
  /\ unit.agent \in unit.snapshot
  /\ Eligible(unit.ag[unit.agent])
  /\ unit.log[Len(unit.log)] = "world_update broadcast"

-----------------------------------------------------------------------------
(* An oracle call that never settles.  getAgentDecision,                    *)
(* getConversationResponse and generatePersonality await the model's reply  *)
(* with no timer beside the call: the tick that awaits it has no other      *)
(* continuation.                                                            *)

\* the oracle calls the tick can come to await in the phase it is in
OracleCalls(u) ==
  IF u.pc = "spawn"
    THEN IF \E r \in RandomDraws : shouldSpawnNewAgent(Cardinality(u.reg), r)
           THEN {"generatePersonality"}
           ELSE {}
  ELSE IF u.pc = "oracle" THEN {"getAgentDecision", "getConversationResponse"}
  ELSE {}

\* the awaited call never returns
TickHang(u, call) == [u EXCEPT !.pc = "hung", !.log = Append(@, call)]

PhaseHang ==
  /\ unit.op = "tick"
  /\ \E call \in OracleCalls(unit) : unit' = TickHang(unit, call)
  /\ UNCHANGED engine

NextHang ==
  \/ NextTick
  \/ PhaseHang

\* the event loop runs every continuation that is ready
SpecHang == InitTick /\ [][NextHang]_vars /\ WF_vars(NextTick)

\* C17: every tick that starts eventually finishes, also when an oracle call
\* (decision, conversation turn, personality generation) never returns.
C17_TickFinishes ==
  (unit.op = "tick" /\ unit.pc # "returned") ~> (unit.pc = "returned")

-----------------------------------------------------------------------------
(* ConversationEngine.startConversation on its own: agent 1 asks for a      *)
(* conversation with a target that may be itself, another registered agent  *)
(* or an id the registry does not hold.                                     *)

ConvActivities ==
  {"sleeping", "eating", "in conversation", "in_conversation", "at cafe", "idle"}
ConvLocs == {"cafe", "homes"}
ConvRegistry == {1, 2}

ConvAgent(act, loc) ==
  [health |-> 700, hunger |-> 300, energy |-> 600, age |-> 30, mood |-> 200,
   loc |-> loc, act |-> act, prof |-> "none"]

InitStartConv ==
  /\ Constructed
  /\ unit \in { [op |-> "startconv", done |-> FALSE,
                 ags |-> [id \in Ids |-> IF id = 1 THEN ConvAgent(ia, il)
                                         ELSE IF id = 2 THEN ConvAgent(ta, tl)
                                         ELSE RemovedAgent],
                 target |-> target,
                 out |-> [id \in Ids |-> NoAgent],
                 active |-> {}] :
                  ia \in {"idle", "at cafe", "in conversation"}, il \in ConvLocs,
                  ta \in ConvActivities, tl \in ConvLocs, target \in Ids }

StartConvStep ==
  /\ unit.op = "startconv"
  /\ ~unit.done
  /\ LET s == [ag |-> unit.ags, reg |-> ConvRegistry, w |-> InitialWorld, tc |-> 1,
               t |-> [At_pc("decide") EXCEPT !.agent = 1], ac |-> {}]
     IN \E s2 \in startConversation(s, 1, 1, unit.target) :
          unit' = [unit EXCEPT !.done = TRUE, !.out = s2.ag, !.active = s2.ac]
  /\ UNCHANGED engine

SpecStartConv == InitStartConv /\ [][StartConvStep]_vars

\* C18: a start-conversation request opens a conversation only if the target
\* is in the registry, in the initiator's location, and not sleeping, eating
\* or in a conversation; in every other case no conversation exists afterwards
\* and every field of every agent, activity included, is as it was.
C18_StartConversationGuard ==
  (unit.op = "startconv" /\ unit.done) =>
     /\ unit.active # {} =>
          /\ unit.target \in ConvRegistry
          /\ unit.ags[unit.target].loc = unit.ags[1].loc
          /\ unit.ags[unit.target].act \notin {"sleeping", "eating", "in conversation"}
     /\ unit.active = {} => unit.out = unit.ags

\* a request turned down because its target is already in a conversation, in
\* the initiator's own location
C18_Witness ==
  /\ unit.op = "startconv" /\ unit.done
  /\ unit.target = 2
  /\ unit.ags[2].loc = unit.ags[1].loc
  /\ unit.ags[2].act = "in conversation"
  /\ unit.active = {}
  /\ unit.out = unit.ags

\* the steps of tick(), by the names of the phases they carry out
PhaseOrder ==
  << "clock advance", "decay", "death evaluation", "death application",
     "spawn", "random event", "sleeping-agent pass", "decision pipeline",
     "persistence flush", "world_update broadcast" >>

\* the phases of tick number tc: the flush only when it is due
PhasesOf(tc) ==
  IF tc % FlushEvery = 0 THEN PhaseOrder
  ELSE SubSeq(PhaseOrder, 1, 8) \o SubSeq(PhaseOrder, 10, 10)

IsPrefix(p, q) == Len(p) <= Len(q) /\ p = SubSeq(q, 1, Len(p))

\* C19: the phases of a tick run strictly in order (clock advance, decay,
\* death evaluation, death application, spawn, random event, sleeping-agent
\* pass, decision pipeline, periodic flush, world_update broadcast); decay is
\* given the night flag of the clock already advanced; and the world_update
\* broadcast holds no agent reported dead in that tick.
C19_PhaseOrder ==
  (unit.op = "tick" /\ unit.started > 0) =>
     /\ IsPrefix(unit.log, PhasesOf(unit.tc))
     /\ (unit.pc = "returned" /\ unit.raised = "none") => unit.log = PhasesOf(unit.tc)
     /\ Len(unit.log) >= 2 => unit.night = isNighttime(unit.w)
     /\ unit.snapshot \cap unit.reported = {}

\* a tick that crossed nightfall, reported a death, flushed and broadcast
C19_Witness ==
  /\ unit.op = "tick" /\ unit.pc = "returned" /\ unit.raised = "none"
  /\ unit.log = PhaseOrder
  /\ unit.reported # {}
  /\ unit.snapshot # {}
  /\ unit.night # isNighttime(unit.w0)

-----------------------------------------------------------------------------
(* The broadcast callback throwing inside a broadcast nobody awaits.        *)
(* broadcast() is async, so the exception rejects its promise; the reward   *)
(* callback and the conversation callback drop that promise, and no         *)
(* handler of unhandled rejections is installed.  The runtime then either   *)
(* ends the process or only warns, by its version and flags.                *)

TickUnhandled(u, exits) ==
  IF exits THEN [u EXCEPT !.pc = "exited", !.unhandled = TRUE, !.running = FALSE]
  ELSE [u EXCEPT !.unhandled = TRUE, !.detached = FALSE]

PhaseDetachedError ==
  /\ unit.op = "tick" /\ unit.pc = "flush"
  /\ unit.detached
  /\ \E exits \in BOOLEAN : unit' = TickUnhandled(unit, exits)
  /\ UNCHANGED engine

NextEscape ==
  \/ NextTick
  \/ PhaseDetachedError

SpecEscape == InitTick /\ [][NextEscape]_vars

\* C20: an error raised in any phase of a tick is caught at the tick
\* boundary: none goes unhandled, the scheduler stays running, and after the
\* tick has returned the next scheduled tick can start.
C20_ErrorsCaughtAtBoundary ==
  unit.op = "tick" =>
     /\ ~unit.unhandled
     /\ unit.running
     /\ unit.pc \in TryPhases \cup {"returned"}
     /\ (unit.pc = "returned" /\ unit.started < MaxTickRuns) => ENABLED PhaseCron

-----------------------------------------------------------------------------
(* A birth on its own: PersonalityBuilder.generatePersonality over the      *)
(* answer of generateAgentPersonality, then AgentManager.createAgent and    *)
(* its insert into the agents table (name TEXT NOT NULL).                   *)

\* spawn attempts in one behaviour
MaxBirths == 3
\* the renaming loop gives up after this many draws
MaxNameAttempts == 5

\* the value of a property the object does not have
Undefined == "undefined"
\* names generateUniqueName can draw, a sample
NamePool == {"Alex Chen", "Jordan Patel"}

\* what generateAgentPersonality resolves to: the parsed reply wrapped as
\* data, or the error message; it never rejects and never resolves to null
OracleReply(ok) ==
  IF ok THEN [success |-> TRUE, data |-> "parsed reply"]
  ELSE [success |-> FALSE, error |-> "message"]

\* obj.key in the source language
Prop(obj, key) == IF key \in DOMAIN obj THEN obj[key] ELSE Undefined

\* the loop of generatePersonality that replaces a name already used
RECURSIVE Rename(_, _, _, _)
Rename(usedNames, finalName, attempts, draws) ==
  IF finalName \in usedNames /\ attempts < MaxNameAttempts
    THEN Rename(usedNames, draws[attempts + 1], attempts + 1, draws)
    ELSE finalName

\* generatePersonality after the oracle's answer (a truthy object)
generatePersonality(generated, usedNames, draws, age, loc) ==
  LET finalName == Rename(usedNames, Prop(generated, "name"), 0, draws)
  IN [name |-> finalName, age |-> age, initial_location |-> loc,
      core_desire |-> IF Prop(generated, "core_desire") = Undefined
                        THEN "To find purpose"
                        ELSE generated.core_desire]

\* the insert of createAgent: a row without a name violates NOT NULL
InsertAccepted(personality, dbUp) == dbUp /\ personality.name # Undefined

BirthInputs ==
  { [op |-> "birth", pc |-> "rule", usedNames |-> used, births |-> 0,
     attempts |-> 0, oracleOk |-> TRUE, dbUp |-> TRUE, registered |-> {},
     personality |-> [name |-> Undefined, age |-> 0, initial_location |-> "",
                      core_desire |-> ""],
     born |-> FALSE] :
      used \in SUBSET NamePool }

InitBirth == Constructed /\ unit \in BirthInputs

\* shouldSpawnNewAgent fired; spawnNewAgent up to the personality
BirthGenerate ==
  /\ unit.op = "birth" /\ unit.pc = "rule"
  /\ unit.attempts < MaxBirths
  /\ \E ok \in BOOLEAN, draws \in [1..MaxNameAttempts -> NamePool],
        age \in SpawnAges, loc \in SpawnLocs :
       LET p == generatePersonality(OracleReply(ok), unit.usedNames, draws, age, loc)
       IN unit' = [unit EXCEPT !.pc = "personality", !.attempts = @ + 1,
                               !.oracleOk = ok, !.personality = p,
                               !.usedNames = @ \cup {p.name}, !.born = FALSE]
  /\ UNCHANGED engine

\* spawnNewAgent from the personality on: createAgent, incrementBirths
BirthCreate ==
  /\ unit.op = "birth" /\ unit.pc = "personality"
  /\ \E dbUp \in BOOLEAN :
       unit' = IF InsertAccepted(unit.personality, dbUp)
                 THEN [unit EXCEPT !.pc = "rule", !.dbUp = dbUp, !.born = TRUE,
                                   !.births = @ + 1,
                                   !.registered = @ \cup {unit.personality.name}]
                 ELSE [unit EXCEPT !.pc = "rule", !.dbUp = dbUp, !.born = FALSE]
  /\ UNCHANGED engine

NextBirth ==
  \/ BirthGenerate
  \/ BirthCreate

SpecBirth == InitBirth /\ [][NextBirth]_vars

\* C21: when the spawn rule has fired and the oracle call for the personality
\* failed, a new agent is registered all the same (the database being up):
\* the birth is never skipped because no personality came back.
C21_BirthDespiteNoPersonality ==
  (unit.op = "birth" /\ unit.pc = "rule" /\ unit.attempts > 0
     /\ ~unit.oracleOk /\ unit.dbUp) => unit.born

-----------------------------------------------------------------------------
(* SimulationEngine.reset, cut at its awaits, up to the first tick of the   *)
(* restarted loop.  u holds the Map of AgentManager (reg, as ids), the rows *)
(* of the agents table with is_alive (db), the world in memory (w) and its  *)
(* row (dbw), tickCount, isRunning and cronJob.                             *)

\* ids the Map can hold before the reset, and an id only the table holds
ResetOldIds == {1, 2, 3}
ResetStoredOnly == 4
\* ids the database gives the rows createStarterAgents inserts
ResetFreshIds == {100 + k : k \in 1..RosterSize}

ResetInputs ==
  { [op |-> "reset", pc |-> "called", reg |-> reg, db |-> reg \cup extra,
     before |-> reg \cup extra, w |-> w, dbw |-> w, tc |-> tc,
     running |-> running, cron |-> running, deleted |-> FALSE] :
      reg \in (SUBSET ResetOldIds) \ {{}}, extra \in {{}, {ResetStoredOnly}},
      w \in TickWorlds, tc \in {0, 7}, running \in BOOLEAN }

InitReset == Constructed /\ unit \in ResetInputs

\* reset up to the delete: the cron job stopped, tickCount = 0
ResetStop ==
  /\ unit.op = "reset" /\ unit.pc = "called"
  /\ unit' = [unit EXCEPT !.pc = "deleting", !.running = FALSE, !.cron = FALSE,
                          !.tc = 0]
  /\ UNCHANGED engine

\* the delete returned (its error is only logged); WorldManager.reset
ResetWorld ==
  /\ unit.op = "reset" /\ unit.pc = "deleting"
  /\ \E ok \in BOOLEAN :
       unit' = [unit EXCEPT !.pc = "world", !.deleted = ok,
                            !.db = IF ok THEN {} ELSE @,
                            !.w = InitialWorld, !.dbw = InitialWorld]
  /\ UNCHANGED engine

\* AgentManager.initialize: the living rows set into the Map, or, when there
\* are none, the starter roster inserted and set into the Map
AgentsInitialize(reg, db) ==
  IF db # {} THEN [reg |-> reg \cup db, db |-> db]
  ELSE [reg |-> reg \cup ResetFreshIds, db |-> ResetFreshIds]

\* the world row updated; agentManager.initialize
ResetAgents ==
  /\ unit.op = "reset" /\ unit.pc = "world"
  /\ LET a == AgentsInitialize(unit.reg, unit.db)
     IN unit' = [unit EXCEPT !.pc = "agents", !.reg = a.reg, !.db = a.db]
  /\ UNCHANGED engine

\* start(): both initialize calls, isRunning, the cron job; next is tick()
ResetStart ==
  /\ unit.op = "reset" /\ unit.pc = "agents"
  /\ ~unit.running
  /\ LET a == AgentsInitialize(unit.reg, unit.db)
     IN unit' = [unit EXCEPT !.pc = "restarted", !.w = unit.dbw, !.reg = a.reg,
                             !.db = a.db, !.running = TRUE, !.cron = TRUE]
  /\ UNCHANGED engine

NextReset ==
  \/ ResetStop
  \/ ResetWorld
  \/ ResetAgents
  \/ ResetStart

SpecReset == InitReset /\ [][NextReset]_vars

\* C22: when reset has restarted the loop, every agent persisted or
\* registered before it is gone (the registry holds exactly the new roster),
\* the world is the initial one, tickCount is 0, and the loop was not running
\* while the clearing and reinitialization went on.
C22_ResetClearsEverything ==
  unit.op = "reset" =>
     /\ unit.pc = "restarted" =>
          /\ unit.reg \cap unit.before = {}
          /\ unit.reg = ResetFreshIds
          /\ unit.db = ResetFreshIds
          /\ unit.w = InitialWorld
          /\ unit.tc = 0
     /\ unit.pc \in {"deleting", "world", "agents"} => ~unit.running /\ ~unit.cron

-----------------------------------------------------------------------------
(* The world clock on its own, from the constructor's state: advanceTime on *)
(* the state as the program holds it (time_of_day a string), a restart of   *)
(* the process (saveToDatabase, then initialize), and reset.                *)

\* the clock is followed up to this day
MaxDays == 121

InitClock ==
  /\ Constructed
  /\ unit = [op |-> "clock", st |-> DefaultWorldRow, prev |-> DefaultWorldRow,
             last |-> "constructor"]

\* advanceTime: time_of_day split and parsed, advanced, formatted again
ClockAdvance ==
  /\ unit.op = "clock"
  /\ unit.st.current_day <= MaxDays
  /\ LET w == WorldFromRow(unit.st)
     IN \E rk \in WeatherDraws(w) :
          unit' = [unit EXCEPT !.prev = unit.st, !.last = "advanceTime",
                               !.st = WorldRow(advanceTime(w, rk[1], rk[2]), unit.st)]
  /\ UNCHANGED engine

\* the process saves and ends; the next one loads the row
ClockRestart ==
  /\ unit.op = "clock"
  /\ unit.last = "advanceTime"
  /\ unit' = [unit EXCEPT !.prev = unit.st, !.last = "initialize",
                          !.st = WorldRow(WorldFromRow(WorldRow(WorldFromRow(unit.st),
                                                                DefaultWorldRow)),
                                          DefaultWorldRow)]
  /\ UNCHANGED engine

\* WorldManager.reset
ClockReset ==
  /\ unit.op = "clock"
  /\ unit.last = "advanceTime"
  /\ unit' = [unit EXCEPT !.prev = unit.st, !.last = "reset", !.st = DefaultWorldRow]
  /\ UNCHANGED engine

NextClock ==
  \/ ClockAdvance
  \/ ClockRestart
  \/ ClockReset

SpecClock == InitClock /\ [][NextClock]_vars

\* the strings HH:MM of the 24-hour cycle
ValidTimes == { FormatTime(h, m) : h \in 0..23, m \in 0..59 }

\* minutes since midnight of a valid time
MinuteOfDay(str) == LET hm == ParseTime(str) IN hm[1] * 60 + hm[2]

\* C23: after any number of advanceTime calls from the initial state
\* time_of_day is a valid HH:MM of the 24-hour cycle, each call adds exactly
\* 30 minutes modulo 24 hours, and current_day never decreases and grows by
\* exactly 1 on exactly the calls that cross midnight.
C23_ClockAdvance ==
  unit.op = "clock" =>
     /\ unit.st.time_of_day \in ValidTimes
     /\ unit.last = "advanceTime" =>
          LET before == MinuteOfDay(unit.prev.time_of_day)
              after == MinuteOfDay(unit.st.time_of_day)
          IN /\ after = (before + 30) % (24 * 60)
             /\ unit.st.current_day >= unit.prev.current_day
             /\ unit.st.current_day
                  = unit.prev.current_day + (IF before + 30 >= 24 * 60 THEN 1 ELSE 0)

\* the call that crosses midnight
C23_Witness ==
  /\ unit.op = "clock" /\ unit.last = "advanceTime"
  /\ unit.prev.time_of_day = "23:30"
  /\ unit.st.time_of_day = "00:00"
  /\ unit.st.current_day = unit.prev.current_day + 1

\* the season the claim gives a day
SeasonOfDay(day) ==
  CASE day % 120 \in 0..29 -> "spring"
    [] day % 120 \in 30..59 -> "summer"
    [] day % 120 \in 60..89 -> "autumn"
    [] day % 120 \in 90..119 -> "winter"

\* C24: in every reachable world state the season is the bin of
\* current_day mod 120 (0..29 spring, 30..59 summer, 60..89 autumn, 90..119
\* winter); no operation leaves season and day inconsistent.
C24_SeasonOfDay ==
  unit.op = "clock" => unit.st.season = SeasonOfDay(unit.st.current_day)

\* the year has turned: spring again on day 120, after a winter
C24_Witness ==
  /\ unit.op = "clock"
  /\ unit.st.current_day = 120
  /\ unit.prev.season = "winter"
  /\ unit.st.season = "spring"

-----------------------------------------------------------------------------
\* the agents a death was applied to: removed from the Map, the object kept
\* by whoever still holds a reference
Dead == {id \in Ids : agents[id] # NoAgent /\ id \notin registry}

\* C25: once a death has been applied to an agent, no later step changes the
\* agent (decay, reward, action), returns it to the registry, or has it as
\* the deciding agent or a participant of a conversation.
C25_DeadTakeNoPart ==
  [][ \A id \in Dead :
        /\ agents'[id] = agents[id]
        /\ id \notin registry'
        /\ \A slot \in Slots :
             (ticks'[slot] # ticks[slot]
                /\ ticks'[slot].pc \in {"decide", "act", "conv", "convsave"})
               => id \notin {ticks'[slot].agent, ticks'[slot].target} ]_vars

\* C26: an operation of the rule evaluator mutates neither the registry nor
\* the world; here the reward evaluation: the agents after the call are the
\* agents before it, whatever reward it announces.
C26_EvaluatorMutatesNothing ==
  (unit.op = "reward" /\ unit.done) => unit.out = unit.ags

-----------------------------------------------------------------------------
(* AgentManager's operations by id, each on its own.  The Map is a function  *)
(* whose domain is the registered ids; what a method returns to its caller   *)
(* is ret, and all four are declared void.                                   *)

RegistryIds == {1, 2, 3}
RegistryCalls == {"updateAgent", "removeAgent", "markInConversation", "endConversation"}

RegistryMaps ==
  UNION { [D -> {PersistedAgents[1], PersistedAgents[3]}] : D \in SUBSET {1, 2} }

\* the Partial<Agent> a caller passes to updateAgent
RegistryUpdates ==
  { [act |-> "at park"], [loc |-> "park", act |-> "moving to park"] }

\* Object.assign(agent, updates)
Spread(a, updates) ==
  [f \in DOMAIN a |-> IF f \in DOMAIN updates THEN updates[f] ELSE a[f]]

updateAgent(map, id, updates) ==
  IF id \in DOMAIN map THEN [map EXCEPT ![id] = Spread(map[id], updates)] ELSE map

removeAgent(map, id) == [x \in DOMAIN map \ {id} |-> map[x]]

markInConversation(map, id) ==
  IF id \in DOMAIN map THEN [map EXCEPT ![id].act = "in_conversation"] ELSE map

endConversation(map, id) ==
  IF id \in DOMAIN map THEN [map EXCEPT ![id].act = "idle"] ELSE map

InitRegistry ==
  /\ Constructed
  /\ unit \in { [op |-> "registry", done |-> FALSE, call |-> call, id |-> id,
                 updates |-> upd, before |-> map, map |-> map,
                 ret |-> "", raised |-> FALSE] :
                  call \in RegistryCalls, id \in RegistryIds,
                  upd \in RegistryUpdates, map \in RegistryMaps }

RegistryStep ==
  /\ unit.op = "registry"
  /\ ~unit.done
  /\ unit' = [unit EXCEPT
                !.done = TRUE,
                !.map = CASE unit.call = "updateAgent" ->
                               updateAgent(unit.map, unit.id, unit.updates)
                          [] unit.call = "removeAgent" -> removeAgent(unit.map, unit.id)
                          [] unit.call = "markInConversation" ->
                               markInConversation(unit.map, unit.id)
                          [] unit.call = "endConversation" ->
                               endConversation(unit.map, unit.id),
                !.ret = Undefined]
  /\ UNCHANGED engine

SpecRegistry == InitRegistry /\ [][RegistryStep]_vars

\* C27: a registry operation called with an id that is not registered leaves
\* the registry as it was, raises nothing, and tells its caller 'not found'.
C27_UnknownIdReported ==
  (unit.op = "registry" /\ unit.done /\ unit.id \notin DOMAIN unit.before) =>
    /\ unit.map = unit.before
    /\ ~unit.raised
    /\ unit.ret = "not found"

-----------------------------------------------------------------------------
(* One oracle answer through getAgentDecision, AgentBrain.makeDecision, the  *)
(* loop body of processAgentDecisions and AgentActions.executeAction, for    *)
(* one agent.  The agent carries mental_state.current_thought here.          *)

\* the cases of executeAction's switch
ActionTypes ==
  {"go_to", "start_conversation", "post_on_board", "write_diary", "stay_silent",
   "eat", "sleep", "create_something", "reflect", "work"}

NoCall == [name |-> "null", loc |-> "", monologue |-> "", body |-> ""]

\* response.functionCalls()?.[0]: none, a declared name, or a name the switch
\* does not know
FunctionCalls ==
  { NoCall,
    [NoCall EXCEPT !.name = "go_to", !.loc = "park"],
    [NoCall EXCEPT !.name = "stay_silent", !.monologue = "Better to wait.",
                   !.body = "arms crossed"],
    [NoCall EXCEPT !.name = "stay_silent", !.monologue = "So tired.",
                   !.body = "sleeping"],
    [NoCall EXCEPT !.name = "stay_silent", !.monologue = "Lunch.",
                   !.body = "eating"],
    [NoCall EXCEPT !.name = "eat"],
    [NoCall EXCEPT !.name = "sleep"],
    [NoCall EXCEPT !.name = "reflect"],
    [NoCall EXCEPT !.name = "post_on_board"],
    [NoCall EXCEPT !.name = ""],
    [NoCall EXCEPT !.name = "dance"],
    [NoCall EXCEPT !.name = "observe"] }

OracleTexts == {"", "What a quiet morning."}

\* what getAgentDecision resolves to
DecisionReplies ==
  { [success |-> TRUE, text |-> txt, functionCall |-> fc] :
      txt \in OracleTexts, fc \in FunctionCalls }
  \cup { [success |-> FALSE, text |-> "", functionCall |-> NoCall] }

NoAction == [type |-> "null", loc |-> "", monologue |-> "", body |-> ""]

makeDecision(result) ==
  IF ~result.success
    THEN [success |-> FALSE, inner_monologue |-> "I feel confused...",
          action |-> NoAction]
  ELSE LET inner_monologue == IF result.text = "" THEN "Lost in thought..."
                              ELSE result.text
       IN IF result.functionCall # NoCall
            THEN [success |-> TRUE, inner_monologue |-> inner_monologue,
                  action |-> [type |-> result.functionCall.name,
                              loc |-> result.functionCall.loc,
                              monologue |-> result.functionCall.monologue,
                              body |-> result.functionCall.body]]
          ELSE [success |-> TRUE, inner_monologue |-> inner_monologue,
                action |-> [type |-> "stay_silent", loc |-> "",
                            monologue |-> inner_monologue,
                            body |-> "standing still, lost in thought"]]

\* the agent after the loop body of processAgentDecisions
ProcessDecision(a, decision) ==
  LET action == decision.action
  IN IF action = NoAction \/ action.type = "" THEN a
     ELSE CASE action.type = "go_to" -> goTo(a, action.loc, TRUE)
            [] action.type = "stay_silent" ->
                 [staySilent(a, action.body) EXCEPT !.thought = action.monologue]
            [] action.type = "eat" -> eat(a)
            [] action.type = "sleep" -> sleep(a)
            [] action.type = "reflect" -> reflect(a, TRUE)
            [] OTHER -> a

ThinkingAgents ==
  { [f \in DOMAIN a \cup {"thought"} |-> IF f = "thought" THEN "an earlier thought"
                                         ELSE a[f]] :
      a \in {StarterAgent(1), PersistedAgents[1], PersistedAgents[3]} }

InitDecide ==
  /\ Constructed
  /\ unit \in { [op |-> "decide", done |-> FALSE, agent |-> a, result |-> res,
                 decision |-> makeDecision(res), out |-> a, raised |-> FALSE] :
                  a \in ThinkingAgents, res \in DecisionReplies }

DecideStep ==
  /\ unit.op = "decide"
  /\ ~unit.done
  /\ unit' = [unit EXCEPT !.done = TRUE,
                          !.out = ProcessDecision(unit.agent, unit.decision)]
  /\ UNCHANGED engine

SpecDecide == InitDecide /\ [][DecideStep]_vars

\* C28: when a successful oracle response carries no action, or an action
\* whose type is outside the closed set, the agent observes: its monologue
\* becomes its current thought, its vitals and location stay, its activity is
\* the neutral idle label, and nothing is raised.
C28_UnrecognizedActionObserves ==
  (/\ unit.op = "decide" /\ unit.done /\ unit.result.success
   /\ \/ unit.result.functionCall = NoCall
      \/ unit.result.functionCall.name \notin ActionTypes) =>
    /\ unit.out.thought = unit.decision.inner_monologue
    /\ unit.out.act = "standing still, lost in thought"
    /\ \A f \in {"health", "hunger", "energy", "mood", "age", "loc"} :
         unit.out[f] = unit.agent[f]
    /\ ~unit.raised

-----------------------------------------------------------------------------
\* the ids of src/backend/data/locations.ts
LocationIds ==
  {"cafe", "park", "shop", "library", "homes", "school", "town_square", "office"}

\* C29: the current_location of every registered agent, starter, loaded,
\* spawned or moved by go_to, is one of the enumerated location ids.
C29_LocationIsEnumerated ==
  \A id \in registry : agents[id].loc \in LocationIds

-----------------------------------------------------------------------------
(* AgentActions.eat on its own: one registered agent eats, another is in the *)
(* Map beside it.                                                            *)

EatHungers == {0, 200, 340, 350, 360, 1000}
EatHealths == {0, 500, 915, 920, 925, 1000}
EatEnergies == {0, 20, 30, 40, 1000}
EatMoods == {-1000, 0, 945, 950, 955, 1000}

EatInputs ==
  { [PersistedAgents[3] EXCEPT !.hunger = hu, !.health = he, !.energy = en,
                               !.mood = mo, !.loc = l] :
      hu \in EatHungers, he \in EatHealths, en \in EatEnergies, mo \in EatMoods,
      l \in Locs }

\* the direct writes on the agent object, then updateAgent
EatAction(map, id) ==
  LET fed == eat(map[id])
  IN updateAgent([map EXCEPT ![id] = fed], id,
                 [health |-> fed.health, hunger |-> fed.hunger,
                  energy |-> fed.energy, mood |-> fed.mood, act |-> "eating"])

InitEat ==
  /\ Constructed
  /\ unit \in { [op |-> "eat", done |-> FALSE, id |-> 1,
                 before |-> (1 :> a @@ 2 :> b),
                 map |-> (1 :> a @@ 2 :> b)] :
                  a \in EatInputs, b \in {PersistedAgents[1], StarterAgent(2)} }

EatStep ==
  /\ unit.op = "eat"
  /\ ~unit.done
  /\ unit' = [unit EXCEPT !.done = TRUE, !.map = EatAction(unit.map, unit.id)]
  /\ UNCHANGED engine

SpecEat == InitEat /\ [][EatStep]_vars

\* C30: after eat the agent's hunger is 35 lower but not below 0, its health 8
\* higher but not above 100, its energy 3 lower but not below 0, its mood
\* score 5 higher but not above 100 and its activity 'eating'; its location
\* and age, and every other agent, are as before.
C30_EatEffect ==
  (unit.op = "eat" /\ unit.done) =>
    LET old == unit.before[unit.id]
        new == unit.map[unit.id]
    IN /\ new.hunger = (IF old.hunger >= 350 THEN old.hunger - 350 ELSE 0)
       /\ new.health = (IF old.health <= 920 THEN old.health + 80 ELSE 1000)
       /\ new.energy = (IF old.energy >= 30 THEN old.energy - 30 ELSE 0)
       /\ new.mood = (IF old.mood <= 950 THEN old.mood + 50 ELSE 1000)
       /\ new.act = "eating"
       /\ new.loc = old.loc /\ new.age = old.age /\ new.prof = old.prof
       /\ DOMAIN unit.map = DOMAIN unit.before
       /\ \A other \in DOMAIN unit.before \ {unit.id} :
            unit.map[other] = unit.before[other]

\* an agent ate with hunger relief and health gain both cut by their bounds
C30_Witness ==
  /\ unit.op = "eat" /\ unit.done
  /\ unit.before[1].hunger = 340 /\ unit.map[1].hunger = 0
  /\ unit.before[1].health = 925 /\ unit.map[1].health = 1000
  /\ unit.map[1].act = "eating"

-----------------------------------------------------------------------------
(* One agent from the decision phase in which it falls asleep through the    *)
(* ticks after it: updatePhysicalNeeds, checkDeathConditions and             *)
(* handleSleepingAgents of each tick, in that order.  An agent that reaches  *)
(* the decision phase has been through this tick's decay, so its energy is   *)
(* within 0..100.                                                            *)

MaxSleepTicks == 3

SleepEnergies == 0..VitalMax

SleepInputs ==
  { [PersistedAgents[3] EXCEPT !.energy = e, !.hunger = hu, !.health = he] :
      e \in SleepEnergies, hu \in {300, 990}, he \in {10, 700} }

InitSleep ==
  /\ Constructed
  /\ unit \in { [op |-> "sleep", pc |-> "select", a |-> a, how |-> "",
                 ticks |-> 0, woken |-> 0] : a \in SleepInputs }

\* step 7: getAgentsNeedingDecisions puts the exhausted to sleep; an eligible
\* agent is put to sleep by the sleep action the oracle chose
SleepFallAsleep ==
  /\ unit.op = "sleep" /\ unit.pc = "select"
  /\ LET got == getAgentsNeedingDecisions([id \in Ids |-> unit.a], {1})
     IN unit' = [unit EXCEPT
                   !.pc = "decay",
                   !.how = IF 1 \in got.list THEN "action" ELSE "auto",
                   !.a = IF 1 \in got.list THEN sleep(got.ag[1]) ELSE got.ag[1]]
  /\ UNCHANGED engine

\* steps 2 and 3 of the next tick
SleepDecay ==
  /\ unit.op = "sleep" /\ unit.pc = "decay"
  /\ unit.ticks < MaxSleepTicks
  /\ \E night \in BOOLEAN :
       LET a1 == DecayAgent(unit.a, night)
       IN unit' = [unit EXCEPT
                     !.a = a1,
                     !.pc = IF DeathCause(a1, 999) # "none" THEN "dead" ELSE "pass"]
  /\ UNCHANGED engine

\* step 6 of that tick; the tick then completes
SleepPass ==
  /\ unit.op = "sleep" /\ unit.pc = "pass"
  /\ LET a1 == WakeAgent(unit.a)
     IN unit' = [unit EXCEPT
                   !.a = a1,
                   !.ticks = @ + 1,
                   !.woken = IF unit.a.act = "sleeping" /\ a1.act # "sleeping"
                               THEN unit.ticks + 1 ELSE @,
                   !.pc = IF a1.act = "sleeping" THEN "decay" ELSE "awake"]
  /\ UNCHANGED engine

NextSleep == SleepFallAsleep \/ SleepDecay \/ SleepPass

SpecSleep == InitSleep /\ [][NextSleep]_vars

C32_FirstMatchWins ==
  (unit.op = "death" /\ unit.done) =>
    /\ \A k, j \in 1..Len(unit.out) : unit.out[k].id = unit.out[j].id => k = j
    /\ \A k \in 1..Len(unit.out) :
         unit.out[k].cause = "old age" =>
           /\ unit.ags[unit.out[k].id].health > 0
           /\ unit.ags[unit.out[k].id].age > AgeThreshold
    /\ \A id \in DeathIds :
         (unit.ags[id].age <= AgeThreshold /\ unit.ags[id].health > 0) =>
           \A k \in 1..Len(unit.out) : unit.out[k].id # id

\* an agent matching both rules was reported once, for its health, beside one
\* reported for old age
C32_Witness ==
  /\ unit.op = "death" /\ unit.done
  /\ Len(unit.out) = 2
  /\ unit.out[1].cause = "health failure"
  /\ unit.ags[unit.out[1].id].age > AgeThreshold
  /\ unit.draws[unit.out[1].id] < (unit.ags[unit.out[1].id].age - AgeThreshold) * 2
  /\ unit.out[2].cause = "old age"

\* the age at which (age - 300) * 0.002 reaches 1
CertainAge == 800

\* C33: an agent whose age is 800 or more at a death check is reported dead
\* whatever the draw, so when the death-application phase of a tick ends no
\* registered agent has age 800 or more.
C33_NoneSurviveCertainAge ==
  [][\A slot \in Slots :
       (ticks[slot].pc = "deaths" /\ ticks'[slot].pc # "deaths") =>
         \A id \in registry' : agents'[id].age < CertainAge]_vars

-----------------------------------------------------------------------------
(* One agent from the decision phase in which it eats through the ticks      *)
(* after it, to its death: updatePhysicalNeeds and checkDeathConditions,     *)
(* then handleSleepingAgents and getAgentsNeedingDecisions, of each tick.    *)

MealInputs ==
  { [PersistedAgents[3] EXCEPT !.energy = e, !.hunger = hu, !.age = 10] :
      e \in {104, 1000}, hu \in {300, 800} }

InitMeal ==
  /\ Constructed
  /\ unit \in { [op |-> "meal", pc |-> "decide", a |-> a, returned |-> FALSE] :
                  a \in MealInputs }

\* step 7: the oracle chose eat for the agent
MealEat ==
  /\ unit.op = "meal" /\ unit.pc = "decide"
  /\ unit' = [unit EXCEPT !.pc = "decay", !.a = eat(unit.a)]
  /\ UNCHANGED engine

\* steps 2 and 3 of a later tick
MealDecay ==
  /\ unit.op = "meal" /\ unit.pc = "decay"
  /\ \E night \in BOOLEAN, r \in RandomDraws :
       LET a1 == DecayAgent(unit.a, night)
       IN unit' = [unit EXCEPT
                     !.a = a1,
                     !.pc = IF DeathCause(a1, r) # "none" THEN "dead" ELSE "select"]
  /\ UNCHANGED engine

\* steps 6 and 7 of that tick
MealSelect ==
  /\ unit.op = "meal" /\ unit.pc = "select"
  /\ LET woken == handleSleepingAgents([id \in Ids |-> unit.a], {1})
         got == getAgentsNeedingDecisions(woken, {1})
     IN unit' = [unit EXCEPT !.a = got.ag[1],
                             !.returned = 1 \in got.list,
                             !.pc = IF 1 \in got.list THEN "decide" ELSE "decay"]
  /\ UNCHANGED engine

NextMeal == MealEat \/ MealDecay \/ MealSelect

\* the cron job keeps starting ticks
SpecMeal == InitMeal /\ [][NextMeal]_vars /\ WF_vars(NextMeal)

\* C34: an agent whose activity is 'eating' does not stay ineligible: while
\* it is alive a later tick changes its activity away from 'eating', and
\* getAgentsNeedingDecisions can return it again.
C34_EatingEnds ==
  (unit.op = "meal" /\ unit.a.act = "eating")
    ~> (unit.op = "meal" /\ unit.pc # "dead" /\ unit.a.act # "eating")

\* C35: whenever no tick is in progress the number of registered agents is
\* the number registered at bootstrap plus the births minus the deaths counted
\* since (the saved counters start() loads are 0 in this model); a death
\* counted removes one agent and a birth counted adds one.
C35_PopulationConserved ==
  (isRunning /\ \A slot \in Slots : ticks[slot].pc = "idle") =>
    Cardinality(registry) = RosterSize + world.total_births - world.total_deaths

\* C36: no active conversation has the same agent as initiator and target.
C36_NoSelfConversation ==
  \A c \in activeConversations : ticks[c].agent # ticks[c].target

-----------------------------------------------------------------------------
(* Two registered agents through tick after tick: updatePhysicalNeeds and    *)
(* checkDeathConditions, handleSleepingAgents and getAgentsNeedingDecisions, *)
(* then the oracle's answer for the one agent selected.  The harness follows *)
(* agent 2, the later one in the Map, until it is selected or dead.          *)

MaxWaits == 5

QueueIds == {1, 2}

\* what the oracle may answer for the selected agent
QueueDecisions ==
  { Decision("none"), Decision("eat"), Decision("sleep"),
    [Decision("go_to") EXCEPT !.loc = "cafe"],
    [Decision("stay_silent") EXCEPT !.body = "standing still, lost in thought"] }

\* a loaded row of a hungry agent with ten ticks to live unless it eats
QueueAgent(e) ==
  [health |-> 150, hunger |-> 950, energy |-> e, age |-> 10, mood |-> 600,
   loc |-> "homes", act |-> "at homes", prof |-> "none"]

InitQueue ==
  /\ Constructed
  /\ unit \in { [op |-> "queue", pc |-> "decay", reg |-> QueueIds, selected |-> 0,
                 waits |-> 0, served |-> FALSE,
                 ag |-> [id \in Ids |->
                           IF id = 1 THEN QueueAgent(800)
                           ELSE IF id = 2 THEN QueueAgent(e)
                           ELSE NoAgent]] : e \in {800, 1000} }

\* steps 2 and 3: decay, death check, removal of the dead
QueueDecay ==
  /\ unit.op = "queue" /\ unit.pc = "decay"
  /\ \E night \in BOOLEAN :
       LET ag1 == updatePhysicalNeeds(unit.ag, unit.reg, night)
       IN \E draws \in DeathDraws(ag1, unit.reg) :
            LET deaths == checkDeathConditions(ag1, unit.reg, draws)
                reg1 == unit.reg \ {deaths[k].id : k \in 1..Len(deaths)}
            IN unit' = [unit EXCEPT !.ag = ag1, !.reg = reg1,
                                    !.pc = IF 2 \in reg1 THEN "select" ELSE "done"]
  /\ UNCHANGED engine

\* steps 6 and 7 up to makeDecision: eligibleAgents.slice(0, 1)
QueueSelect ==
  /\ unit.op = "queue" /\ unit.pc = "select"
  /\ LET got == getAgentsNeedingDecisions(handleSleepingAgents(unit.ag, unit.reg),
                                          unit.reg)
         chosen == IF got.list = {} THEN 0 ELSE First(got.list)
     IN unit' = [unit EXCEPT
                   !.ag = got.ag,
                   !.selected = chosen,
                   !.served = (chosen = 2),
                   !.waits = IF 2 \in got.list /\ chosen # 2
                               THEN Min(MaxWaits, @ + 1) ELSE @,
                   !.pc = IF chosen = 2 THEN "done"
                          ELSE IF chosen = 0 THEN "decay" ELSE "oracle"]
  /\ UNCHANGED engine

\* step 7 from the oracle's answer: the action of the selected agent
QueueOracle ==
  /\ unit.op = "queue" /\ unit.pc = "oracle"
  /\ \E d \in QueueDecisions :
       LET a == unit.ag[unit.selected]
       IN unit' = [unit EXCEPT
                     !.pc = "decay",
                     !.ag[unit.selected] =
                        CASE d.type = "eat" -> eat(a)
                          [] d.type = "sleep" -> sleep(a)
                          [] d.type = "go_to" -> goTo(a, d.loc, TRUE)
                          [] d.type = "stay_silent" -> staySilent(a, d.body)
                          [] OTHER -> a]
  /\ UNCHANGED engine

NextQueue == QueueDecay \/ QueueSelect \/ QueueOracle

\* the cron job keeps starting ticks
SpecQueue == InitQueue /\ [][NextQueue]_vars /\ WF_vars(NextQueue)

\* C37: the one-agent-per-tick selection starves no agent: an agent that has
\* been eligible at the decision phase of tick after tick without being
\* selected is selected in a later tick, whatever the oracle answers for the
\* other agent.
C37_NoStarvation ==
  (unit.op = "queue" /\ unit.waits = MaxWaits) ~> (unit.op = "queue" /\ unit.served)

-----------------------------------------------------------------------------
(* SimulationEngine.start, stop and reset called by the server: start() by   *)
(* the listen callback, reset() by POST /api/reset, each cut at its awaits.  *)
(* A call occupies one slot; the schedule a start() creates bears the slot's *)
(* number.  active is the set of schedules node-cron is running, cronJob the *)
(* one the engine still holds a reference to (0: null).                      *)

MaxCalls == 3

Calls == 1..MaxCalls

InitLifecycle ==
  /\ Constructed
  /\ unit = [op |-> "lifecycle", isRunning |-> FALSE, cronJob |-> 0, active |-> {},
             pc |-> [c \in Calls |-> "new"], stopped |-> FALSE, stray |-> FALSE]

\* start() up to its first await
StartEnter(u, c) ==
  IF u.isRunning THEN [u EXCEPT !.pc[c] = "done"]
  ELSE [u EXCEPT !.pc[c] = "init", !.stopped = FALSE]

LifecycleStart(c) ==
  /\ unit.op = "lifecycle" /\ unit.pc[c] = "new"
  /\ unit' = StartEnter(unit, c)
  /\ UNCHANGED engine

\* start() after worldManager.initialize and agentManager.initialize returned
LifecycleStartInit(c) ==
  /\ unit.op = "lifecycle" /\ unit.pc[c] = "init"
  /\ unit' = [unit EXCEPT !.isRunning = TRUE, !.cronJob = c,
                          !.active = @ \cup {c}, !.pc[c] = "done"]
  /\ UNCHANGED engine

LifecycleStop(c) ==
  /\ unit.op = "lifecycle" /\ unit.pc[c] = "new"
  /\ unit' = IF ~unit.isRunning THEN [unit EXCEPT !.pc[c] = "done"]
             ELSE [unit EXCEPT !.active = @ \ {unit.cronJob}, !.cronJob = 0,
                               !.isRunning = FALSE, !.stopped = TRUE,
                               !.pc[c] = "done"]
  /\ UNCHANGED engine

\* reset() up to its first await
LifecycleReset(c) ==
  /\ unit.op = "lifecycle" /\ unit.pc[c] = "new"
  /\ unit' = IF unit.isRunning /\ unit.cronJob # 0
               THEN [unit EXCEPT !.active = @ \ {unit.cronJob}, !.cronJob = 0,
                                 !.isRunning = FALSE, !.pc[c] = "clearing"]
             ELSE [unit EXCEPT !.pc[c] = "clearing"]
  /\ UNCHANGED engine

\* reset() after the delete, worldManager.reset and agentManager.initialize:
\* it calls start()
LifecycleResetRestart(c) ==
  /\ unit.op = "lifecycle" /\ unit.pc[c] = "clearing"
  /\ unit' = StartEnter(unit, c)
  /\ UNCHANGED engine

\* a schedule fires its callback
LifecycleCronFire ==
  /\ unit.op = "lifecycle"
  /\ unit.active # {}
  /\ unit' = [unit EXCEPT !.stray = unit.stopped]
  /\ UNCHANGED engine

NextLifecycle ==
  \/ \E c \in Calls : LifecycleStart(c)
  \/ \E c \in Calls : LifecycleStartInit(c)
  \/ \E c \in Calls : LifecycleStop(c)
  \/ \E c \in Calls : LifecycleReset(c)
  \/ \E c \in Calls : LifecycleResetRestart(c)
  \/ LifecycleCronFire

SpecLifecycle == InitLifecycle /\ [][NextLifecycle]_vars

\* C38: at most one tick schedule is active whatever the interleaving of
\* start(), stop() and reset(), and after stop() has returned no tick starts
\* until start() is called again.
C38_OneSchedule ==
  unit.op = "lifecycle" => (Cardinality(unit.active) <= 1 /\ ~unit.stray)

-----------------------------------------------------------------------------
(* The registry against the agents table across stop() and start().  mem is  *)
(* the Map, db the rows whose is_alive is true: createAgent and the starter  *)
(* insert write is_alive true and nothing in the program writes it again.    *)

MaxRestartTicks == 3

RestartIds == {1, 2}

InitRestart ==
  /\ Constructed
  /\ unit \in { [op |-> "restart", running |-> TRUE, tc |-> tc,
                 mem |-> (1 :> StarvingAgent @@ 2 :> PersistedAgents[1]),
                 db |-> (1 :> StarvingAgent @@ 2 :> PersistedAgents[1]),
                 dead |-> {}, rolledBack |-> FALSE, n |-> 0] : tc \in {0, 3, 4} }

\* one tick: decay, death check and removeAgent, and every fifth tick
\* saveToDatabase, which updates the rows of the agents in the Map
RestartTick ==
  /\ unit.op = "restart" /\ unit.running
  /\ unit.n < MaxRestartTicks
  /\ \E night \in BOOLEAN :
     LET aged == [id \in DOMAIN unit.mem |-> DecayAgent(unit.mem[id], night)]
         dying == {id \in DOMAIN aged : DeathCause(aged[id], 999) # "none"}
         mem1 == [id \in DOMAIN aged \ dying |-> aged[id]]
         tc1 == unit.tc + 1
     IN unit' = [unit EXCEPT
                   !.tc = tc1, !.n = @ + 1, !.mem = mem1,
                   !.dead = @ \cup dying,
                   !.db = IF tc1 % FlushEvery = 0
                            THEN [id \in DOMAIN unit.db |->
                                    IF id \in DOMAIN mem1 THEN mem1[id] ELSE unit.db[id]]
                          ELSE @]
  /\ UNCHANGED engine

RestartStop ==
  /\ unit.op = "restart" /\ unit.running
  /\ unit' = [unit EXCEPT !.running = FALSE]
  /\ UNCHANGED engine

\* start(): agentManager.initialize sets every is_alive row into the Map
RestartStart ==
  /\ unit.op = "restart" /\ ~unit.running
  /\ unit' = [unit EXCEPT
                !.running = TRUE,
                !.mem = [id \in DOMAIN unit.mem \cup DOMAIN unit.db |->
                           IF id \in DOMAIN unit.db THEN unit.db[id] ELSE unit.mem[id]],
                !.rolledBack = \E id \in DOMAIN unit.mem :
                                 unit.db[id].age < unit.mem[id].age]
  /\ UNCHANGED engine

NextRestart == RestartTick \/ RestartStop \/ RestartStart

SpecRestart == InitRestart /\ [][NextRestart]_vars

\* C39: an agent removed by a death rule is never registered again, and a
\* start() after stop() does not replace a living agent's state in memory by
\* an older saved copy.
C39_DeadStayDead ==
  unit.op = "restart" =>
    /\ unit.dead \cap DOMAIN unit.mem = {}
    /\ ~unit.rolledBack

\* the activities that keep an agent out of the decision round or out of a
\* conversation
BusyMarkers == {"sleeping", "eating", "in_conversation", "in conversation"}

\* C40: the busy markers are set only by their own transitions: an action
\* leaves an agent 'sleeping' only if it is the sleep action, 'eating' only if
\* it is the eat action, and no action other than a conversation start leaves
\* it in conversation.
C40_MarkersOnlyByOwnAction ==
  (unit.op = "decide" /\ unit.done /\ unit.out.act \in BusyMarkers
   /\ unit.out.act # unit.agent.act) =>
    /\ unit.out.act = "sleeping" => unit.decision.action.type = "sleep"
    /\ unit.out.act = "eating" => unit.decision.action.type = "eat"
    /\ unit.out.act \in {"in_conversation", "in conversation"} =>
         unit.decision.action.type = "start_conversation"

====
